---- MODULE Spec2Model ----
(***************************************************************************)
(* Model of the document-ingestion pipeline of                             *)
(* src/data_ingestion/pdf_processor.py: the status ledger and the file     *)
(* loops of run_extraction / run_cleanup (specification Spec), the         *)
(* per-document page pipeline of _extract_pdf with its one-shot timeout    *)
(* workers (SpecPage / FairSpecPage) and the vector-diagram predicate      *)
(* (SpecDiagram).                                                          *)
(***************************************************************************)
EXTENDS Integers, Sequences, FiniteSets, TLC

\* ------------------------------------------------------------------------
\* Bounds of the model
\* ------------------------------------------------------------------------
NFiles == 2
MaxRuns == 2
MaxDocPages == 4
NPages == 2
NImgPages == 4
NHdrPages == 10
MaxLines == 6
MaxMarkPages == 3
MaxCaptionLen == 3
MaxEmbedded == 2
NOcrPages == 3
MaxOcrDocPages == 21
MaxPrecheckPages == 4
NSources == 2
NSourceFiles == 2
NOrderPages == 2
NAgents == 2

\* ------------------------------------------------------------------------
\* Program constants
\* ------------------------------------------------------------------------
MIN_TEXT_LENGTH_FOR_VALID_PAGE == 50
MIN_DRAWINGS == 100
MIN_DRAWING_COVERAGE == 30
MAX_TEXT_FOR_DIAGRAM == 300
LOGO_PAGE_THRESHOLD == 3
MIN_FRAGMENT_RUN == 4
MAX_FRAGMENT_LEN == 30
MIN_HEADER_PAGES == 3
MAX_LABEL_LEN == 40
OCR_BATCH_SIZE == 10
MIN_CJK == 20
MIN_LATIN == 20
MAX_LATIN_FOR_SAMPLE == 100
COMPLEX_DIAGRAM_THRESHOLD == 40
HIGH_RES_DPI == 300
LOW_RES_DPI == 150

VARIABLES
    \* ---- ledger / file loop (run_extraction, run_cleanup) ----
    runNo,        \* number of stage runs started so far (also the clock of datetime.now())
    pc,           \* position of the running stage: idle, loop, text, images, clean, save, dump
    stage,        \* "extract" or "clean": the stage whose ledger and runs are followed
    force,        \* the force argument of the run
    target,       \* the files whose name contains target_file (all files when it is None)
    idx,          \* position of the file loop in the sorted listing
    cur,          \* the file being processed (0 when none)
    status,       \* the in-memory ledger dict of the run
    disk,         \* the stage's ledger file on disk
    rawText,      \* the files whose extracted/<label>/<stem>/text.txt exists
    doc,          \* what the processing of the current document has done so far
    processed,    \* history: files the run has entered processing for
    skipped,      \* history: files the run skipped as already done
    wrote,        \* history: files the run has written an artifact (text or image) for
    raised,       \* history: per file, the exception text its processing raised in this run
    flushed,      \* history: the last ledger content _save_status completed
    lastEnd,      \* history: how the last run ended: none, running, completed, crashed, loadfail
    crashAt,      \* history: the position the last crash hit
    resume,       \* history: the run repeats the command of a run that crashed mid-document
    loads,        \* history: the _load_status calls of the last run started
    crashFile,    \* history: the file that was in progress at that crash (0 when none)
    \* ---- strategy decision of _extract_pdf ----
    s_pc,           \* start (before the decision), pages (page extraction), end
    docPages,       \* the document: per page its pdfplumber text length, rotation, fitz text length
    ocr_config,     \* force_ocr_config.get(pdf_filename): "none", "all" or "pages"
    ocr_list,       \* the page list of a "pages" override ({} otherwise)
    use_ocr,        \* the use_ocr flag of _extract_pdf
    ocr_pages_only, \* the ocr_pages_only list of _extract_pdf
    sampled,        \* history: how many pages the precheck has read
    extracted,      \* number of pages whose text has been extracted
    \* ---- _is_vector_diagram ----
    d_pc,           \* page (not classified yet) or classified
    num_drawings,   \* len(page.get_drawings())
    num_rects,      \* number of drawings that carry a rect
    bbox_area,      \* area of the union bounding box of the rects
    page_area,      \* page.rect.width * page.rect.height
    text_len,       \* len(page.get_text())
    is_diagram,     \* the value _is_vector_diagram returned
    \* ---- page pipeline of _extract_pdf (standard extraction) ----
    p_pc,           \* position of the pipeline thread
    pn,             \* page_num of the loop the pipeline is in
    worker,         \* the one-shot worker thread: none, running, finished, failed
    phase,          \* the image phase (2 or 3) of the render call in progress, 0 when none
    tableBlocks,    \* pages whose content got a table block
    tableTimeout,   \* pages whose table extraction timed out
    embedded,       \* pages from which Phase 1 extracted an embedded image
    rendered_pages, \* the rendered_pages set of _extract_pdf
    renderFailed,   \* pages with a render that timed out or failed
    outcome,        \* the ledger status run_extraction records: none, done, error
    \* ---- embedded images of _extract_pdf (Phase 1) ----
    l_pc,           \* scan (before _recurring_logo_xrefs), images (image loop), end
    imgDoc,         \* the document: per page the xrefs of page.get_images(), in order
    bigXrefs,       \* the xrefs whose image meets the width, height and byte minimums
    logo_xrefs,     \* the logo_xrefs set of _extract_pdf
    seen_xrefs,     \* the seen_xrefs set of _extract_pdf
    l_pn,           \* page_num of the image loop
    written,        \* history: the (page, xref) pairs an image file was written for
    \* ---- cleanup of one document (_clean_text) and _rejoin_fragments ----
    c_pc,           \* split (pages split, headers not detected yet), pages (page loop), end
    rawPages,       \* per page section of the raw text file its lines; a line is its sequence of words
    headers,        \* the headers set of _clean_text
    cleanedPages,   \* the cleaned list of _clean_text: per page section its cleaned lines
    c_pn,           \* position of the page loop of _clean_text
    fragLines,      \* the argument of a _rejoin_fragments call
    fragResult,     \* the list that call returned
    \* ---- page markers from extraction to cleanup ----
    m_pc,           \* extracted (pages_content built), written (text.txt written), cleaned
    pages_content,  \* the pages_content list of _extract_pdf: page_num and the lines of the content
    textFile,       \* the lines of extracted text.txt
    recovered,      \* the markers the split of _clean_text found, as page numbers
    cleanedFile,    \* the lines of cleaned text.txt
    \* ---- image file names: extraction writes them, ingestion parses them ----
    f_pc,           \* caption (a caption was found), named (file name built), parsed
    caption,        \* the raw caption the label is made of, as its characters
    origin,         \* the phase that writes the image: embedded, vector_render or figure_page
    f_page,         \* page_num of the image
    f_count,        \* n_embedded when the image is written
    f_ext,          \* the extension of an embedded image
    f_label,        \* the sanitised label encoded into the name
    fname,          \* the file name, as its pieces
    parsed,         \* what _parse_image_filename returned for the name
    \* ---- image files written by the image loop of _extract_pdf ----
    i_pc,           \* phase1, phase2, phase3 of the page in the image loop, or end
    i_pn,           \* page_num of the image loop
    figure_pages,   \* the figure_pages set: pages whose text has a figure keyword
    n_embedded,     \* the n_embedded counter
    page_had_image, \* the page_had_image flag
    page_label,     \* what _find_page_label returns for the page
    page_rendered,  \* page_num in rendered_pages
    page_is_diagram, \* _is_vector_diagram(page) of the current page
    vector_tried,   \* history: Phase 2 called _safe_render_page for the current page
    imageFiles,     \* the paths under images/ written so far
    n_written,      \* history: number of image writes so far
    \* ---- OCR of a document: _extract_text_with_ocr (full) and _extract_single_page_with_ocr (mixed) ----
    o_pc,           \* page (page loop), retry (the eng fallback call is next), write (text write), end
    o_mode,         \* full (use_ocr) or mixed (ocr_pages_only)
    o_list,         \* ocr_pages_only in mixed mode
    lang_missing,   \* the language pack of the requested lang is not installed
    fault,          \* per page: ok, or error when image_to_string fails on it for another reason
    o_pn,           \* page_num of the page loop
    pages_text,     \* per page the text the page loop holds: none (no entry), text, empty
    calls,          \* history: per page the number of image_to_string calls
    textFile_pages, \* the pages text.txt has a section for, with their text; none when no file
    \* ---- batches of _extract_text_with_ocr ----
    b_pc,           \* convert (convert_from_path is next), ocr (inner page loop), done
    total_pages,    \* page count of the document
    batch_start,    \* batch_start of the batch loop
    images,         \* the pages whose images the list images holds; empty when images is unbound
    image,          \* the page whose image the loop variable image holds; 0 when unbound
    b_i,            \* number of images of the batch the inner loop has taken
    batch_pages_text, \* pages_text: the page numbers appended, in order
    requests,       \* history: the <<first_page, last_page>> of every convert_from_path call
    \* ---- precheck of _extract_pdf on two documents ----
    k_pc,           \* first (precheck of the first document is next), second, done
    docA,           \* first document: per page what the precheck reads, empty / garbled / clean
    docB,           \* second document
    use_ocrA,       \* use_ocr of the first document after its precheck
    use_ocrB,       \* use_ocr of the second document after its precheck
    \* ---- order of the documents and pages of a stage run ----
    r_pc,           \* source (source folder loop), files (file loop), pages (inside a document), end
    r_stage,        \* extract or clean
    listing,        \* the source folders in the order the stage visits them
    r_src,          \* position of the source folder loop in listing
    r_file,         \* position of the file loop in the sorted listing of the folder
    r_pages,        \* number of pages of the document being processed, 0 when none
    r_pn,           \* page_num of the page loop
    docsVisited,    \* history: the <<label, file>> of the documents entered, in order
    pagesVisited,   \* history: the pages of the current document extracted, in order
    \* ---- rotation fallback of the page loop ----
    t_pc,           \* page (the standard extraction of the page is done), done
    rotation,       \* the /Rotate angle of the page
    plumber_out,    \* length of the stripped standard result (tables and text)
    fitz_text,      \* length of the stripped rotation-aware text
    kept,           \* the result appended to pages_content: plumber or fitz
    \* ---- _detect_ocr_language ----
    g_pc,           \* detect (the function is entered), done
    meta_lang,      \* the metadata language field: none, zh (names Chinese), en (another language)
    cjk_count,      \* CJK characters in the embedded text of the first 10 pages
    latin_count,    \* ASCII letters in the embedded text of the first 10 pages
    can_sample,     \* OCR_AVAILABLE and pdf_path
    sample_cjk,     \* CJK characters in the OCR sample of page 1; -1 when the sample fails or has no image
    ocr_lang,       \* the language string returned
    sample_taken,   \* history: the OCR sample of page 1 was made
    \* ---- resolution of the full-page renders of a page ----
    v_pc,           \* phase2, phase3, end
    v_page,         \* the page: its drawings, rects, bbox area, page area, text length
    v_had_image,    \* page_had_image after Phase 1
    v_figure,       \* page_num in figure_pages
    v_rendered,     \* page_num in rendered_pages
    dpi_vector,     \* history: the dpi of the vector_render image written, 0 when none
    dpi_figure,     \* history: the dpi of the figure_page image written, 0 when none
    \* ---- SSE endpoints: the analysis task, the status queue, the event generator ----
    e_pc,           \* position of _run_analysis: start, agents (gather), whys, finish, done
    endpoint,       \* 5_whys (/analyze-stream) or integrated_rca (/analyze-integrated-stream)
    agent_pc,       \* per domain agent: unselected, selected, pending (its task runs), started (its status is put), done, failed
    status_queue,   \* the asyncio.Queue of the request
    n_put,          \* history: number of items put on the queue
    stream,         \* the SSE events the generator has yielded, each with the number of its item
    gen_pc          \* the event generator: open (in its loop), closed (left it with break)

ledgerVars == <<runNo, pc, stage, force, target, idx, cur, status, disk, rawText, doc,
                processed, skipped, wrote, raised, flushed, lastEnd, crashAt, resume, crashFile,
                loads>>

strategyVars == <<s_pc, docPages, ocr_config, ocr_list, use_ocr, ocr_pages_only, sampled,
                  extracted>>

diagVars == <<d_pc, num_drawings, num_rects, bbox_area, page_area, text_len, is_diagram>>

pageVars == <<p_pc, pn, worker, phase, tableBlocks, tableTimeout, embedded, rendered_pages,
              renderFailed, outcome>>

logoVars == <<l_pc, imgDoc, bigXrefs, logo_xrefs, seen_xrefs, l_pn, written>>

cleanVars == <<c_pc, rawPages, headers, cleanedPages, c_pn, fragLines, fragResult>>

markerVars == <<m_pc, pages_content, textFile, recovered, cleanedFile>>

fnameVars == <<f_pc, caption, origin, f_page, f_count, f_ext, f_label, fname, parsed>>

imgVars == <<i_pc, i_pn, figure_pages, n_embedded, page_had_image, page_label, page_rendered,
            page_is_diagram, vector_tried, imageFiles, n_written>>

ocrVars == <<o_pc, o_mode, o_list, lang_missing, fault, o_pn, pages_text, calls, textFile_pages>>

batchVars == <<b_pc, total_pages, batch_start, images, image, b_i, batch_pages_text, requests>>

precheckVars == <<k_pc, docA, docB, use_ocrA, use_ocrB>>

orderVars == <<r_pc, r_stage, listing, r_src, r_file, r_pages, r_pn, docsVisited, pagesVisited>>

rotVars == <<t_pc, rotation, plumber_out, fitz_text, kept>>

langVars == <<g_pc, meta_lang, cjk_count, latin_count, can_sample, sample_cjk, ocr_lang, sample_taken>>

dpiVars == <<v_pc, v_page, v_had_image, v_figure, v_rendered, dpi_vector, dpi_figure>>

sseVars == <<e_pc, endpoint, agent_pc, status_queue, n_put, stream, gen_pc>>

vars == <<ledgerVars, strategyVars, diagVars, pageVars, logoVars, cleanVars, markerVars, fnameVars, imgVars, ocrVars, batchVars, precheckVars, orderVars, rotVars, langVars, dpiVars, sseVars>>

DocPcs == {"text", "images", "clean"}

Files == 1..NFiles
Stages == {"extract", "clean"}
ExcTexts == {"bad pdf", "io error"}

\* The candidates are visited in sorted(os.listdir(...)) order: file i is the
\* i-th name of the sorted listing.
NoEntry == [status |-> "absent", payload |-> "", timestamp |-> 0]
DoneEntry(now) == [status |-> "done", payload |-> "output", timestamp |-> now]
ErrorEntry(text, now) == [status |-> "error", payload |-> text, timestamp |-> now]
EmptyLedger == [f \in Files |-> NoEntry]
NoDoc == [wroteText |-> FALSE, use_ocr |-> FALSE, ocr_pages |-> FALSE]

\* ------------------------------------------------------------------------
\* Status ledger: _load_status / _save_status
\* ------------------------------------------------------------------------
\* A ledger file is missing, complete ("ok") or partial (opened with "w",
\* which truncates it, and not yet completely written by json.dump).
MissingFile == [state |-> "missing", entries |-> EmptyLedger]
TruncatedFile == [state |-> "partial", entries |-> EmptyLedger]
SavedFileWithoutEntries(ledger) == [state |-> "ok", entries |-> EmptyLedger]
SavedFile(ledger) == [state |-> "ok", entries |-> ledger]

\* json.load raises on a file that is not one complete JSON document.
LoadRaises(file) == file.state = "partial"
LoadStatusForgets(file) == EmptyLedger
LoadStatus(file) == IF file.state = "ok" THEN file.entries ELSE EmptyLedger

\* ------------------------------------------------------------------------
\* Strategy decision of _extract_pdf (override table, then precheck)
\* ------------------------------------------------------------------------
\* force_ocr_config.get(pdf_filename): no entry, "all", or a list of pages.
OcrConfigs == {"none", "all", "pages"}
MaxSample == 3
BoolSeqs(n) == [1..n -> BOOLEAN]
\* sample[i] is TRUE when sampled page i was classified empty
Samples == UNION {BoolSeqs(n) : n \in 1..MaxSample}
EmptyCount(sample) == Cardinality({i \in DOMAIN sample : sample[i]})
PrecheckUseOcr(sample) == EmptyCount(sample) = Len(sample)
UseOcr(cfg, sample) ==
    IF cfg = "all" THEN TRUE
    ELSE IF cfg = "pages" THEN FALSE
    ELSE PrecheckUseOcr(sample)

\* A page of a document as the precheck sees it: the length of the stripped
\* pdfplumber text, the /Rotate angle, the length of the stripped PyMuPDF text.
PageKinds ==
    { [plen |-> 50, rot |-> 0, flen |-> 50],
      [plen |-> 49, rot |-> 0, flen |-> 50],
      [plen |-> 49, rot |-> 90, flen |-> 50],
      [plen |-> 0, rot |-> 90, flen |-> 49] }
Docs == UNION {[1..n -> PageKinds] : n \in 0..MaxDocPages}
OcrLists(n) == SUBSET (1..n) \ {{}}

\* the text the precheck classifies: PyMuPDF's for a rotated page whose
\* pdfplumber text is short
PrecheckTextLen(page) ==
    IF page.plen < MIN_TEXT_LENGTH_FOR_VALID_PAGE /\ page.rot # 0 THEN page.flen ELSE page.plen
PageIsEmpty(page) == PrecheckTextLen(page) < MIN_TEXT_LENGTH_FOR_VALID_PAGE
PagesToCheckAll(total) == total
PagesToCheck(total) == IF total < MaxSample THEN total ELSE MaxSample
PrecheckSample(pages) == [i \in 1..PagesToCheck(Len(pages)) |-> PageIsEmpty(pages[i])]

\* the strategy names of the decision policy, from the two flags of the code
Strategy(full_ocr, page_list) ==
    IF full_ocr THEN "OCR_FULL"
    ELSE IF page_list # {} THEN "OCR_MIXED"
    ELSE "STANDARD"

\* skip_text_file: full OCR was chosen and OCR is unavailable or gave no page
SkipTextFileWithoutOcr(full_ocr, avail, gotPages) == ~avail \/ (full_ocr /\ ~gotPages)
SkipTextFile(full_ocr, avail, gotPages) == full_ocr /\ (~avail \/ ~gotPages)

\* ------------------------------------------------------------------------
\* File loop of run_extraction / run_cleanup
\* ------------------------------------------------------------------------
\* a file the loop considers at all: a PDF matching target_file (extraction),
\* a stem with an extracted text.txt matching target_file (cleanup)
Candidate(stg, f) ==
    IF stg = "extract" THEN f \in target
    ELSE f \in rawText /\ f \in target

ShouldSkipAnyEntry(forceFlag, ledger, f) == ~forceFlag /\ ledger[f].status # "absent"
ShouldSkipNever(forceFlag, ledger, f) == FALSE
ShouldSkip(forceFlag, ledger, f) == ~forceFlag /\ ledger[f].status = "done"

OnSuccess(ledger, f, now) == [ledger EXCEPT ![f] = DoneEntry(now)]
OnExceptionDropsText(ledger, f, text, now) == [ledger EXCEPT ![f] = ErrorEntry("", now)]
OnException(ledger, f, text, now) == [ledger EXCEPT ![f] = ErrorEntry(text, now)]

\* target_file is None (every file matches) or names one file
Targets == {Files} \cup {{f} : f \in Files}

\* A behaviour follows the runs of one stage over its own ledger file. The
\* stages share no ledger; cleanup sees extraction only through the extracted
\* text files, which extraction runs in between may add to.
InitLedger ==
    /\ runNo = 0
    /\ pc = "idle"
    /\ stage \in Stages
    /\ force = FALSE
    /\ target = Files
    /\ idx = 0
    /\ cur = 0
    /\ status = EmptyLedger
    /\ disk = MissingFile
    /\ rawText = {}
    /\ doc = NoDoc
    /\ processed = {}
    /\ skipped = {}
    /\ wrote = {}
    /\ raised = [f \in Files |-> ""]
    /\ flushed = EmptyLedger
    /\ lastEnd = "none"
    /\ crashAt = "none"
    /\ resume = FALSE
    /\ crashFile = 0
    /\ loads = 0

\* The command line starts the stage: the ledger is read once, before the
\* loop. `more` are the text files extraction wrote since the last cleanup run.
StartRun(frc, tgt, more) ==
    /\ pc = "idle"
    /\ runNo < MaxRuns
    /\ stage = "extract" => more = {}
    /\ runNo' = runNo + 1
    /\ loads' = 1
    /\ force' = frc
    /\ target' = tgt
    /\ rawText' = IF stage = "clean" THEN rawText \cup more ELSE rawText
    /\ resume' = (lastEnd = "crashed" /\ crashAt \in DocPcs /\ frc = force /\ tgt = target)
    /\ crashFile' = IF resume' THEN cur ELSE 0
    /\ crashAt' = "none"
    /\ cur' = 0
    /\ doc' = NoDoc
    /\ processed' = {}
    /\ skipped' = {}
    /\ wrote' = {}
    /\ raised' = [f \in Files |-> ""]
    /\ IF LoadRaises(disk)
       THEN /\ pc' = "idle"
            /\ lastEnd' = "loadfail"
            /\ status' = EmptyLedger
            /\ idx' = 0
       ELSE /\ pc' = "loop"
            /\ lastEnd' = "running"
            /\ status' = LoadStatus(disk)
            /\ idx' = 1
    /\ UNCHANGED <<stage, disk, flushed>>

\* the loop has run out of files: the stage returns and the process exits
FinishRun ==
    /\ pc = "loop"
    /\ idx > NFiles
    /\ pc' = "idle"
    /\ lastEnd' = "completed"
    /\ idx' = 0
    /\ status' = EmptyLedger
    /\ processed' = {}
    /\ skipped' = {}
    /\ wrote' = {}
    /\ raised' = [f \in Files |-> ""]
    /\ resume' = FALSE
    /\ crashFile' = 0
    /\ UNCHANGED <<loads, runNo, stage, force, target, cur, disk, rawText, doc, flushed, crashAt>>

\* `continue` on a file the filters reject
SkipNotCandidate ==
    /\ pc = "loop"
    /\ idx <= NFiles
    /\ ~Candidate(stage, idx)
    /\ idx' = idx + 1
    /\ UNCHANGED <<loads, runNo, pc, stage, force, target, cur, status, disk, rawText, doc,
                   processed, skipped, wrote, raised, flushed, lastEnd, crashAt, resume,
                   crashFile>>

\* "Already extracted - skip" / "Already cleaned - skip"
SkipDone ==
    /\ pc = "loop"
    /\ idx <= NFiles
    /\ Candidate(stage, idx)
    /\ ShouldSkip(force, status, idx)
    /\ skipped' = skipped \cup {idx}
    /\ idx' = idx + 1
    /\ UNCHANGED <<loads, runNo, pc, stage, force, target, cur, status, disk, rawText, doc,
                   processed, wrote, raised, flushed, lastEnd, crashAt, resume, crashFile>>

\* the file is processed: _extract_pdf or _clean_text is entered
BeginFile ==
    /\ pc = "loop"
    /\ idx <= NFiles
    /\ Candidate(stage, idx)
    /\ ~ShouldSkip(force, status, idx)
    /\ cur' = idx
    /\ processed' = processed \cup {idx}
    /\ doc' = NoDoc
    /\ pc' = IF stage = "extract" THEN "text" ELSE "clean"
    /\ UNCHANGED <<loads, runNo, stage, force, target, idx, status, disk, rawText,
                   skipped, wrote, raised, flushed, lastEnd, crashAt, resume, crashFile>>

\* ------------------------------------------------------------------------
\* _extract_pdf and _clean_text as the file loop sees them
\* ------------------------------------------------------------------------
\* open(text_path, "w") of _extract_pdf creates extracted/.../text.txt
WriteText(raw, f) == raw \cup {f}

\* _extract_pdf up to the write of text.txt: the strategy is decided, the
\* pages are extracted, then the text file is written unless skip_text_file.
\* cfg and sample are the override entry and the precheck sample of the
\* document, avail is OCR_AVAILABLE, gotPages whether OCR returned any page.
ExtractText(cfg, sample, avail, gotPages) ==
    /\ pc = "text"
    /\ LET full_ocr == UseOcr(cfg, sample)
           got == full_ocr /\ avail /\ gotPages
           skip == SkipTextFile(full_ocr, avail, got)
       IN /\ rawText' = IF skip THEN rawText ELSE WriteText(rawText, cur)
          /\ wrote' = IF skip THEN wrote ELSE wrote \cup {cur}
          /\ doc' = [wroteText |-> ~skip, use_ocr |-> full_ocr, ocr_pages |-> got]
    /\ pc' = "images"
    /\ UNCHANGED <<loads, runNo, stage, force, target, idx, cur, status, disk,
                   processed, skipped, raised, flushed, lastEnd, crashAt, resume, crashFile>>

\* the three image phases complete, _extract_pdf returns and the loop
\* records status done
ExtractImages ==
    /\ pc = "images"
    /\ wrote' = wrote \cup {cur}
    /\ status' = OnSuccess(status, cur, runNo)
    /\ pc' = "save"
    /\ UNCHANGED <<loads, runNo, stage, force, target, idx, cur, disk, rawText, doc,
                   processed, skipped, raised, flushed, lastEnd, crashAt, resume, crashFile>>

\* _clean_text reads the extracted text and writes the cleaned text; the loop
\* records status done
CleanText ==
    /\ pc = "clean"
    /\ wrote' = wrote \cup {cur}
    /\ doc' = [doc EXCEPT !.wroteText = TRUE]
    /\ status' = OnSuccess(status, cur, runNo)
    /\ pc' = "save"
    /\ UNCHANGED <<loads, runNo, stage, force, target, idx, cur, disk, rawText,
                   processed, skipped, raised, flushed, lastEnd, crashAt, resume, crashFile>>

\* an exception leaves _extract_pdf / _clean_text: `except Exception as exc`
\* records status error with str(exc)
ProcessingRaises(text) ==
    /\ pc \in DocPcs
    /\ status' = OnException(status, cur, text, runNo)
    /\ raised' = [raised EXCEPT ![cur] = text]
    /\ pc' = "save"
    /\ UNCHANGED <<loads, runNo, stage, force, target, idx, cur, disk, rawText, doc,
                   processed, skipped, wrote, flushed, lastEnd, crashAt, resume, crashFile>>

\* _save_status, first half: open(path, "w") truncates the ledger file
SaveOpen ==
    /\ pc = "save"
    /\ disk' = TruncatedFile
    /\ pc' = "dump"
    /\ doc' = NoDoc
    /\ UNCHANGED <<loads, runNo, stage, force, target, idx, cur, status, rawText,
                   processed, skipped, wrote, raised, flushed, lastEnd, crashAt, resume,
                   crashFile>>

\* _save_status, second half: json.dump has written the whole dict and the
\* file is closed; the loop goes to the next file
SaveDump ==
    /\ pc = "dump"
    /\ disk' = SavedFile(status)
    /\ flushed' = status
    /\ idx' = idx + 1
    /\ cur' = 0
    /\ pc' = "loop"
    /\ UNCHANGED <<loads, runNo, stage, force, target, status, rawText, doc,
                   processed, skipped, wrote, raised, lastEnd, crashAt, resume, crashFile>>

\* the process dies (kill, power loss): its memory is lost, the disk stays as
\* it is
Crash ==
    /\ pc # "idle"
    /\ crashAt' = pc
    /\ lastEnd' = "crashed"
    /\ pc' = "idle"
    /\ idx' = 0
    /\ status' = EmptyLedger
    /\ doc' = NoDoc
    /\ processed' = {}
    /\ skipped' = {}
    /\ wrote' = {}
    /\ raised' = [f \in Files |-> ""]
    /\ resume' = FALSE
    /\ crashFile' = 0
    /\ UNCHANGED <<loads, runNo, stage, force, target, cur, disk, rawText, flushed>>

\* the precheck samples the file loop is run with: a one-page document
\* whose page is empty, one whose page has text
LedgerSamples == BoolSeqs(1)

NextLedger ==
    /\ UNCHANGED <<strategyVars, diagVars, pageVars, logoVars, cleanVars, markerVars, fnameVars, imgVars, ocrVars, batchVars, precheckVars, orderVars, rotVars, langVars, dpiVars, sseVars>>
    /\ \/ \E frc \in BOOLEAN, tgt \in Targets, more \in SUBSET Files : StartRun(frc, tgt, more)
       \/ FinishRun
       \/ SkipNotCandidate
       \/ SkipDone
       \/ BeginFile
       \/ \E cfg \in OcrConfigs, sample \in LedgerSamples, avail \in BOOLEAN, gotPages \in BOOLEAN :
             ExtractText(cfg, sample, avail, gotPages)
       \/ ExtractImages
       \/ CleanText
       \/ \E text \in ExcTexts : ProcessingRaises(text)
       \/ SaveOpen
       \/ SaveDump
       \/ Crash

\* the strategy variables while the file loops are followed
IdleStrategy ==
    /\ s_pc = "start"
    /\ docPages = <<>>
    /\ ocr_config = "none"
    /\ ocr_list = {}
    /\ use_ocr = FALSE
    /\ ocr_pages_only = {}
    /\ sampled = 0
    /\ extracted = 0

\* no document is in the embedded-image loop
IdleLogo ==
    /\ l_pc = "scan"
    /\ imgDoc = <<>>
    /\ bigXrefs = {}
    /\ logo_xrefs = {}
    /\ seen_xrefs = {}
    /\ l_pn = 1
    /\ written = {}

\* no document is being cleaned
IdleClean ==
    /\ c_pc = "split"
    /\ rawPages = <<>>
    /\ headers = {}
    /\ cleanedPages = <<>>
    /\ c_pn = 1
    /\ fragLines = <<>>
    /\ fragResult = <<>>

\* no text file is followed from extraction to cleanup
IdleMarker ==
    /\ m_pc = "extracted"
    /\ pages_content = <<>>
    /\ textFile = <<>>
    /\ recovered = <<>>
    /\ cleanedFile = <<>>

\* no image file name is followed
IdleFname ==
    /\ f_pc = "caption"
    /\ caption = <<>>
    /\ origin = "embedded"
    /\ f_page = 1
    /\ f_count = 0
    /\ f_ext = "png"
    /\ f_label = <<>>
    /\ fname = <<>>
    /\ parsed = [page_number |-> 0, image_type |-> "none", label |-> <<>>]

\* no document is in the image-writing loop
IdleImages ==
    /\ i_pc = "phase1"
    /\ i_pn = 1
    /\ figure_pages = {}
    /\ n_embedded = 0
    /\ page_had_image = FALSE
    /\ page_label = <<>>
    /\ page_rendered = FALSE
    /\ page_is_diagram = FALSE
    /\ vector_tried = FALSE
    /\ imageFiles = {}
    /\ n_written = 0

\* no document is in OCR
IdleOcr ==
    /\ o_pc = "page"
    /\ o_mode = "full"
    /\ o_list = {}
    /\ lang_missing = FALSE
    /\ fault = <<>>
    /\ o_pn = 1
    /\ pages_text = <<>>
    /\ calls = <<>>
    /\ textFile_pages = "none"

\* no document is in batch OCR
IdleBatch ==
    /\ b_pc = "convert"
    /\ total_pages = 0
    /\ batch_start = 0
    /\ images = {}
    /\ image = 0
    /\ b_i = 0
    /\ batch_pages_text = <<>>
    /\ requests = <<>>

\* no pair of documents is in precheck
IdlePrecheck ==
    /\ k_pc = "first"
    /\ docA = <<>>
    /\ docB = <<>>
    /\ use_ocrA = FALSE
    /\ use_ocrB = FALSE

\* no stage run is followed for its order
IdleOrder ==
    /\ r_pc = "source"
    /\ r_stage = "extract"
    /\ listing = <<>>
    /\ r_src = 1
    /\ r_file = 1
    /\ r_pages = 0
    /\ r_pn = 0
    /\ docsVisited = <<>>
    /\ pagesVisited = <<>>

\* no page is in the rotation fallback
IdleRotation ==
    /\ t_pc = "page"
    /\ rotation = 0
    /\ plumber_out = 0
    /\ fitz_text = 0
    /\ kept = "none"

\* no language detection is followed
IdleLang ==
    /\ g_pc = "detect"
    /\ meta_lang = "none"
    /\ cjk_count = 0
    /\ latin_count = 0
    /\ can_sample = FALSE
    /\ sample_cjk = 0
    /\ ocr_lang = "none"
    /\ sample_taken = FALSE

\* no page is followed for its render resolution
IdleDpi ==
    /\ v_pc = "phase2"
    /\ v_page = [drawings |-> 0, rects |-> 0, bbox |-> 0, area |-> 0, text |-> 0]
    /\ v_had_image = FALSE
    /\ v_figure = FALSE
    /\ v_rendered = FALSE
    /\ dpi_vector = 0
    /\ dpi_figure = 0

\* no streaming request is followed
IdleSse ==
    /\ e_pc = "start"
    /\ endpoint = "5_whys"
    /\ agent_pc = <<>>
    /\ status_queue = <<>>
    /\ n_put = 0
    /\ stream = <<>>
    /\ gen_pc = "open"

\* no page is being classified
IdleDiagram ==
    /\ d_pc = "page"
    /\ num_drawings = 0
    /\ num_rects = 0
    /\ bbox_area = 0
    /\ page_area = 0
    /\ text_len = 0
    /\ is_diagram = FALSE

\* no document is in the page pipeline
IdlePage ==
    /\ p_pc = "page"
    /\ pn = 1
    /\ worker = "none"
    /\ phase = 0
    /\ tableBlocks = {}
    /\ tableTimeout = {}
    /\ embedded = {}
    /\ rendered_pages = {}
    /\ renderFailed = {}
    /\ outcome = "none"

\* ------------------------------------------------------------------------
\* _extract_pdf: the strategy is decided, then the pages are extracted
\* ------------------------------------------------------------------------
InitStrategyVars ==
    /\ s_pc = "start"
    /\ docPages \in Docs
    /\ ocr_config \in OcrConfigs
    /\ ocr_list \in (IF ocr_config = "pages" THEN OcrLists(Len(docPages)) ELSE {{}})
    /\ use_ocr = FALSE
    /\ ocr_pages_only = {}
    /\ sampled = 0
    /\ extracted = 0

\* lines 719-761: the override table, else the precheck
Decide ==
    /\ s_pc = "start"
    /\ use_ocr' = UseOcr(ocr_config, PrecheckSample(docPages))
    /\ ocr_pages_only' = IF ocr_config = "pages" THEN ocr_list ELSE {}
    /\ sampled' = IF ocr_config = "none" THEN PagesToCheck(Len(docPages)) ELSE 0
    /\ s_pc' = "pages"
    /\ UNCHANGED <<docPages, ocr_config, ocr_list, extracted>>

\* use_ocr: the whole document goes through _extract_text_with_ocr, which
\* returns every page or none
ExtractOcrFull(ok) ==
    /\ s_pc = "pages"
    /\ use_ocr
    /\ extracted' = IF ok THEN Len(docPages) ELSE 0
    /\ s_pc' = "end"
    /\ UNCHANGED <<docPages, ocr_config, ocr_list, use_ocr, ocr_pages_only, sampled>>

\* one turn of the page loop: single-page OCR for a listed page, the
\* table-aware extraction for every other page
ExtractPage ==
    /\ s_pc = "pages"
    /\ ~use_ocr
    /\ extracted < Len(docPages)
    /\ extracted' = extracted + 1
    /\ UNCHANGED <<s_pc, docPages, ocr_config, ocr_list, use_ocr, ocr_pages_only, sampled>>

\* the page loop is over
FinishPages ==
    /\ s_pc = "pages"
    /\ ~use_ocr
    /\ extracted = Len(docPages)
    /\ s_pc' = "end"
    /\ UNCHANGED <<docPages, ocr_config, ocr_list, use_ocr, ocr_pages_only, sampled, extracted>>

NextStrategy ==
    /\ UNCHANGED <<ledgerVars, diagVars, pageVars, logoVars, cleanVars, markerVars, fnameVars, imgVars, ocrVars, batchVars, precheckVars, orderVars, rotVars, langVars, dpiVars, sseVars>>
    /\ \/ Decide
       \/ \E ok \in BOOLEAN : ExtractOcrFull(ok)
       \/ ExtractPage
       \/ FinishPages

\* the ledger variables while one document is followed
IdleLedger == InitLedger /\ stage = "extract"

InitStrategy == IdleLedger /\ InitStrategyVars /\ IdleDiagram /\ IdlePage /\ IdleLogo /\ IdleClean /\ IdleMarker /\ IdleFname /\ IdleImages /\ IdleOcr /\ IdleBatch /\ IdlePrecheck /\ IdleOrder /\ IdleRotation /\ IdleLang /\ IdleDpi /\ IdleSse
SpecStrategy == InitStrategy /\ [][NextStrategy]_vars

\* ------------------------------------------------------------------------
\* _is_vector_diagram
\* ------------------------------------------------------------------------
DrawingCounts == {0, 99, 100, 150}
Areas == {0, 29, 30, 40, 100}
PageAreas == {0, 100}
TextLens == {0, 100, 299, 300, 301, 1000}

\* the three checks in the order of the code; the coverage test
\* bbox / page_area * 100 < MIN_DRAWING_COVERAGE is written without the division
IsVectorDiagram(drawings, rects, bbox, area, text) ==
    IF drawings < MIN_DRAWINGS THEN FALSE
    ELSE IF rects = 0 THEN FALSE
    ELSE IF area = 0 THEN FALSE
    ELSE IF bbox * 100 < MIN_DRAWING_COVERAGE * area THEN FALSE
    ELSE IF text > MAX_TEXT_FOR_DIAGRAM THEN FALSE
    ELSE TRUE

InitDiagramVars ==
    /\ d_pc = "page"
    /\ num_drawings \in DrawingCounts
    /\ num_rects \in {0, num_drawings}
    /\ bbox_area \in (IF num_rects = 0 THEN {0} ELSE Areas)
    /\ page_area \in PageAreas
    /\ text_len \in TextLens
    /\ is_diagram = FALSE

Classify ==
    /\ d_pc = "page"
    /\ is_diagram' = IsVectorDiagram(num_drawings, num_rects, bbox_area, page_area, text_len)
    /\ d_pc' = "classified"
    /\ UNCHANGED <<num_drawings, num_rects, bbox_area, page_area, text_len>>

NextDiagram ==
    /\ UNCHANGED <<ledgerVars, strategyVars, pageVars, logoVars, cleanVars, markerVars, fnameVars, imgVars, ocrVars, batchVars, precheckVars, orderVars, rotVars, langVars, dpiVars, sseVars>>
    /\ Classify

InitDiagram == IdleLedger /\ IdleStrategy /\ InitDiagramVars /\ IdlePage /\ IdleLogo /\ IdleClean /\ IdleMarker /\ IdleFname /\ IdleImages /\ IdleOcr /\ IdleBatch /\ IdlePrecheck /\ IdleOrder /\ IdleRotation /\ IdleLang /\ IdleDpi /\ IdleSse
SpecDiagram == InitDiagram /\ [][NextDiagram]_vars

\* ------------------------------------------------------------------------
\* _extract_pdf, standard extraction: the page loop with the table
\* extraction worker, the text file, the image loop with the render worker
\* ------------------------------------------------------------------------
Pages == 1..NPages

\* a page listed in ocr_pages_only: single-page OCR, then `continue`
OcrSinglePage ==
    /\ p_pc = "page"
    /\ pn <= NPages
    /\ pn' = pn + 1
    /\ UNCHANGED <<p_pc, worker, phase, tableBlocks, tableTimeout, embedded, rendered_pages,
                   renderFailed, outcome>>

\* _extract_tables_with_timeout: executor.submit(page.extract_tables)
SubmitTables ==
    /\ p_pc = "page"
    /\ pn <= NPages
    /\ worker' = "running"
    /\ p_pc' = "tables_wait"
    /\ UNCHANGED <<pn, phase, tableBlocks, tableTimeout, embedded, rendered_pages,
                   renderFailed, outcome>>

\* the worker thread: the submitted call returns
WorkerFinish ==
    /\ worker = "running"
    /\ worker' = "finished"
    /\ UNCHANGED <<p_pc, pn, phase, tableBlocks, tableTimeout, embedded, rendered_pages,
                   renderFailed, outcome>>

\* the worker thread: the submitted call raises
WorkerRaise ==
    /\ worker = "running"
    /\ worker' = "failed"
    /\ UNCHANGED <<p_pc, pn, phase, tableBlocks, tableTimeout, embedded, rendered_pages,
                   renderFailed, outcome>>

\* future.result returns the tables in time; the executor is shut down
\* with its worker already finished; the page content is appended
TablesResult(found) ==
    /\ p_pc = "tables_wait"
    /\ worker = "finished"
    /\ worker' = "none"
    /\ tableBlocks' = IF found THEN tableBlocks \cup {pn} ELSE tableBlocks
    /\ pn' = pn + 1
    /\ p_pc' = "page"
    /\ UNCHANGED <<phase, tableTimeout, embedded, rendered_pages, renderFailed, outcome>>

\* future.result re-raises the exception of page.extract_tables, which
\* _extract_tables_with_timeout and _extract_pdf do not catch
TablesRaise ==
    /\ p_pc = "tables_wait"
    /\ worker = "failed"
    /\ worker' = "none"
    /\ p_pc' = "raised"
    /\ UNCHANGED <<pn, phase, tableBlocks, tableTimeout, embedded, rendered_pages,
                   renderFailed, outcome>>

\* future.result(timeout) raises FuturesTimeoutError: `return None` is
\* executed inside the `with` block, whose exit comes next
TablesTimeout ==
    /\ p_pc = "tables_wait"
    /\ worker = "running"
    /\ tableTimeout' = tableTimeout \cup {pn}
    /\ p_pc' = "tables_join"
    /\ UNCHANGED <<pn, worker, phase, tableBlocks, embedded, rendered_pages, renderFailed,
                   outcome>>

\* the exit of `with ThreadPoolExecutor(...)` is shutdown(wait=True): it
\* returns when the worker thread has ended; then tables is None and the
\* page content is text only
TablesJoin ==
    /\ p_pc = "tables_join"
    /\ worker \in {"finished", "failed"}
    /\ worker' = "none"
    /\ pn' = pn + 1
    /\ p_pc' = "page"
    /\ UNCHANGED <<phase, tableBlocks, tableTimeout, embedded, rendered_pages, renderFailed,
                   outcome>>

\* the page loop is over
EndPages ==
    /\ p_pc = "page"
    /\ pn > NPages
    /\ p_pc' = "write"
    /\ UNCHANGED <<pn, worker, phase, tableBlocks, tableTimeout, embedded, rendered_pages,
                   renderFailed, outcome>>

\* text.txt is written; the image loop starts at the first page
WriteTextFile ==
    /\ p_pc = "write"
    /\ pn' = 1
    /\ p_pc' = "img"
    /\ UNCHANGED <<worker, phase, tableBlocks, tableTimeout, embedded, rendered_pages,
                   renderFailed, outcome>>

\* Phase 1: the embedded images of the page
Phase1(had_image) ==
    /\ p_pc = "img"
    /\ pn <= NPages
    /\ embedded' = IF had_image THEN embedded \cup {pn} ELSE embedded
    /\ p_pc' = "phase2"
    /\ UNCHANGED <<pn, worker, phase, tableBlocks, tableTimeout, rendered_pages, renderFailed,
                   outcome>>

\* Phase 2 does not apply: the page had an image or is no vector diagram
Phase2Skip(diagram) ==
    /\ p_pc = "phase2"
    /\ pn \in embedded \/ ~diagram
    /\ p_pc' = "phase3"
    /\ UNCHANGED <<pn, worker, phase, tableBlocks, tableTimeout, embedded, rendered_pages,
                   renderFailed, outcome>>

\* Phase 2: _safe_render_page submits page.get_pixmap
Phase2Render ==
    /\ p_pc = "phase2"
    /\ pn \notin embedded
    /\ worker' = "running"
    /\ phase' = 2
    /\ p_pc' = "render_wait"
    /\ UNCHANGED <<pn, tableBlocks, tableTimeout, embedded, rendered_pages, renderFailed,
                   outcome>>

\* where the image loop goes on after a render call of the given phase
AfterRender(ph) == IF ph = 2 THEN "phase3" ELSE "img"
AfterRenderPage(ph, page) == IF ph = 2 THEN page ELSE page + 1

\* the pixmap arrives in time and is saved
RenderResult ==
    /\ p_pc = "render_wait"
    /\ worker = "finished"
    /\ worker' = "none"
    /\ rendered_pages' = rendered_pages \cup {pn}
    /\ p_pc' = AfterRender(phase)
    /\ pn' = AfterRenderPage(phase, pn)
    /\ phase' = 0
    /\ UNCHANGED <<tableBlocks, tableTimeout, embedded, renderFailed, outcome>>

\* MemoryError or another exception of the renderer: caught, a warning
RenderFails ==
    /\ p_pc = "render_wait"
    /\ worker = "failed"
    /\ worker' = "none"
    /\ renderFailed' = renderFailed \cup {pn}
    /\ p_pc' = AfterRender(phase)
    /\ pn' = AfterRenderPage(phase, pn)
    /\ phase' = 0
    /\ UNCHANGED <<tableBlocks, tableTimeout, embedded, rendered_pages, outcome>>

\* future.result(timeout) raises FuturesTimeoutError: the return of
\* (None, False, warning) is executed inside the `with` block
RenderTimeout ==
    /\ p_pc = "render_wait"
    /\ worker = "running"
    /\ renderFailed' = renderFailed \cup {pn}
    /\ p_pc' = "render_join"
    /\ UNCHANGED <<pn, worker, phase, tableBlocks, tableTimeout, embedded, rendered_pages,
                   outcome>>

\* the exit of the `with` block waits for the worker thread to end
RenderJoin ==
    /\ p_pc = "render_join"
    /\ worker \in {"finished", "failed"}
    /\ worker' = "none"
    /\ p_pc' = AfterRender(phase)
    /\ pn' = AfterRenderPage(phase, pn)
    /\ phase' = 0
    /\ UNCHANGED <<tableBlocks, tableTimeout, embedded, rendered_pages, renderFailed,
                   outcome>>

\* Phase 3 does not apply: no figure keyword, or the page is in rendered_pages
Phase3Skip(figure) ==
    /\ p_pc = "phase3"
    /\ ~figure \/ pn \in rendered_pages
    /\ pn' = pn + 1
    /\ p_pc' = "img"
    /\ UNCHANGED <<worker, phase, tableBlocks, tableTimeout, embedded, rendered_pages,
                   renderFailed, outcome>>

\* Phase 3: the page has a figure keyword and is not in rendered_pages
Phase3Render ==
    /\ p_pc = "phase3"
    /\ pn \notin rendered_pages
    /\ worker' = "running"
    /\ phase' = 3
    /\ p_pc' = "render_wait"
    /\ UNCHANGED <<pn, tableBlocks, tableTimeout, embedded, rendered_pages, renderFailed,
                   outcome>>

\* the image loop is over: _extract_pdf returns
EndImages ==
    /\ p_pc = "img"
    /\ pn > NPages
    /\ p_pc' = "returned"
    /\ UNCHANGED <<pn, worker, phase, tableBlocks, tableTimeout, embedded, rendered_pages,
                   renderFailed, outcome>>

\* run_extraction: the ledger entry of the document
RecordOutcome ==
    /\ p_pc \in {"returned", "raised"}
    /\ outcome = "none"
    /\ outcome' = IF p_pc = "returned" THEN "done" ELSE "error"
    /\ UNCHANGED <<p_pc, pn, worker, phase, tableBlocks, tableTimeout, embedded,
                   rendered_pages, renderFailed>>

\* the steps of the pipeline thread
PipelineStep ==
    \/ OcrSinglePage
    \/ SubmitTables
    \/ \E found \in BOOLEAN : TablesResult(found)
    \/ TablesRaise
    \/ TablesTimeout
    \/ TablesJoin
    \/ EndPages
    \/ WriteTextFile
    \/ \E had_image \in BOOLEAN : Phase1(had_image)
    \/ \E diagram \in BOOLEAN : Phase2Skip(diagram)
    \/ Phase2Render
    \/ RenderResult
    \/ RenderFails
    \/ RenderTimeout
    \/ RenderJoin
    \/ \E figure \in BOOLEAN : Phase3Skip(figure)
    \/ Phase3Render
    \/ EndImages
    \/ RecordOutcome

\* the steps of the worker thread
WorkerStep ==
    \/ WorkerFinish
    \/ WorkerRaise

NextPage ==
    /\ UNCHANGED <<ledgerVars, strategyVars, diagVars, logoVars, cleanVars, markerVars, fnameVars, imgVars, ocrVars, batchVars, precheckVars, orderVars, rotVars, langVars, dpiVars, sseVars>>
    /\ \/ PipelineStep
       \/ WorkerStep

InitPage == IdleLedger /\ IdleStrategy /\ IdleDiagram /\ IdlePage /\ IdleLogo /\ IdleClean /\ IdleMarker /\ IdleFname /\ IdleImages /\ IdleOcr /\ IdleBatch /\ IdlePrecheck /\ IdleOrder /\ IdleRotation /\ IdleLang /\ IdleDpi /\ IdleSse
SpecPage == InitPage /\ [][NextPage]_vars

\* the pipeline thread always runs on when it can, and a timeout that is
\* due fires; nothing bounds the time the submitted library call takes
FairSpecPage == SpecPage /\ WF_vars(NextPage /\ PipelineStep)

\* ------------------------------------------------------------------------
\* _recurring_logo_xrefs and Phase 1 of the image loop
\* ------------------------------------------------------------------------
Xrefs == {1, 2}
PageImageLists == {<<>>} \cup {<<x>> : x \in Xrefs} \cup {<<x, y>> : x, y \in Xrefs}
ImgDocs == [1..NImgPages -> PageImageLists]

OnPage(imgs, x) == \E i \in DOMAIN imgs : imgs[i] = x

\* counts[xref]: one per page that shows the xref (the `seen` set of the page)
RECURSIVE CountPages(_, _, _)
CountPages(d, x, p) ==
    IF p > Len(d) THEN 0
    ELSE (IF OnPage(d[p], x) THEN 1 ELSE 0) + CountPages(d, x, p + 1)

\* counts[xref] if every occurrence were counted
RECURSIVE CountOccurrences(_, _, _)
CountOccurrences(d, x, p) ==
    IF p > Len(d) THEN 0
    ELSE Cardinality({i \in DOMAIN d[p] : d[p][i] = x}) + CountOccurrences(d, x, p + 1)

RecurringLogoXrefsPerOccurrence(d) ==
    {x \in Xrefs : CountOccurrences(d, x, 1) >= LOGO_PAGE_THRESHOLD}
RecurringLogoXrefs(d) == {x \in Xrefs : CountPages(d, x, 1) >= LOGO_PAGE_THRESHOLD}

\* the inner loop of Phase 1 over the images of one page, from position i:
\* the xrefs written and seen_xrefs after the loop
RECURSIVE Phase1Images(_, _, _, _, _)
Phase1Images(imgs, i, logos, seen, big) ==
    IF i > Len(imgs) THEN [wrote |-> {}, seen |-> seen]
    ELSE IF imgs[i] \in logos \/ imgs[i] \in seen THEN Phase1Images(imgs, i + 1, logos, seen, big)
    ELSE IF imgs[i] \notin big THEN Phase1Images(imgs, i + 1, logos, seen, big)
    ELSE LET rest == Phase1Images(imgs, i + 1, logos, seen \cup {imgs[i]}, big)
         IN [wrote |-> {imgs[i]} \cup rest.wrote, seen |-> rest.seen]

InitLogoVars ==
    /\ l_pc = "scan"
    /\ imgDoc \in ImgDocs
    /\ bigXrefs \in SUBSET Xrefs
    /\ logo_xrefs = {}
    /\ seen_xrefs = {}
    /\ l_pn = 1
    /\ written = {}

\* logo_xrefs = _recurring_logo_xrefs(doc)
ScanLogos ==
    /\ l_pc = "scan"
    /\ logo_xrefs' = RecurringLogoXrefs(imgDoc)
    /\ l_pc' = "images"
    /\ UNCHANGED <<imgDoc, bigXrefs, seen_xrefs, l_pn, written>>

\* Phase 1 for one page of the image loop
ExtractEmbedded ==
    /\ l_pc = "images"
    /\ l_pn <= Len(imgDoc)
    /\ LET r == Phase1Images(imgDoc[l_pn], 1, logo_xrefs, seen_xrefs, bigXrefs)
       IN /\ written' = written \cup {<<l_pn, x>> : x \in r.wrote}
          /\ seen_xrefs' = r.seen
    /\ l_pn' = l_pn + 1
    /\ UNCHANGED <<l_pc, imgDoc, bigXrefs, logo_xrefs>>

\* the image loop is over
EndEmbedded ==
    /\ l_pc = "images"
    /\ l_pn > Len(imgDoc)
    /\ l_pc' = "end"
    /\ UNCHANGED <<imgDoc, bigXrefs, logo_xrefs, seen_xrefs, l_pn, written>>

NextLogo ==
    /\ UNCHANGED <<ledgerVars, strategyVars, diagVars, pageVars, cleanVars, markerVars, fnameVars, imgVars, ocrVars, batchVars, precheckVars, orderVars, rotVars, langVars, dpiVars, sseVars>>
    /\ \/ ScanLogos
       \/ ExtractEmbedded
       \/ EndEmbedded

InitLogo == IdleLedger /\ IdleStrategy /\ IdleDiagram /\ IdlePage /\ InitLogoVars /\ IdleClean /\ IdleMarker /\ IdleFname /\ IdleImages /\ IdleOcr /\ IdleBatch /\ IdlePrecheck /\ IdleOrder /\ IdleRotation /\ IdleLang /\ IdleDpi /\ IdleSse
SpecLogo == InitLogo /\ [][NextLogo]_vars

\* ------------------------------------------------------------------------
\* Cleanup: _normalize_header, _detect_recurring_headers, _rejoin_fragments,
\* _clean_text.  A line is the sequence of its whitespace-separated words;
\* the blank line is <<>>.
\* ------------------------------------------------------------------------
LongWord == "pneumonoultramicroscopicsilicovolcanoconiosis"
PageFractions == {"1/3", "2/3"}

\* str.lower() on the words of the model
Lower(word) ==
    CASE word = "ACME" -> "acme"
      [] word = "Manual" -> "manual"
      [] word = "Page:" -> "page:"
      [] OTHER -> word

\* len() of the words of the model
WordLen(word) ==
    CASE word \in {"a", "b"} -> 1
      [] word \in {"1/3", "2/3", "#/#"} -> 3
      [] word \in {"ACME", "acme", "beta"} -> 4
      [] word \in {"Page:", "page:", "alpha", "gamma"} -> 5
      [] word \in {"Manual", "manual"} -> 6
      [] OTHER -> 45

RECURSIVE WordsLen(_, _)
WordsLen(line, i) == IF i > Len(line) THEN 0 ELSE WordLen(line[i]) + WordsLen(line, i + 1)

\* len(line) of a line whose words are separated by single spaces
LineLen(line) == IF line = <<>> THEN 0 ELSE WordsLen(line, 1) + Len(line) - 1

\* _PAGE_NUM_RE.sub("Page: #/#", line.strip()).lower()
RECURSIVE NormalizeFrom(_, _)
NormalizeFrom(line, i) ==
    IF i > Len(line) THEN <<>>
    ELSE IF line[i] = "Page:" /\ i < Len(line) /\ line[i + 1] \in PageFractions
         THEN <<"page:", "#/#">> \o NormalizeFrom(line, i + 2)
    ELSE <<Lower(line[i])>> \o NormalizeFrom(line, i + 1)

NormalizeHeader(line) == NormalizeFrom(line, 1)

\* counts[norm]: one per page that has a line of that normal form
RECURSIVE CountHeaderPages(_, _, _)
CountHeaderPages(page_lines_list, norm, p) ==
    IF p > Len(page_lines_list) THEN 0
    ELSE (IF \E i \in DOMAIN page_lines_list[p] : NormalizeHeader(page_lines_list[p][i]) = norm
          THEN 1 ELSE 0) + CountHeaderPages(page_lines_list, norm, p + 1)

\* the normal forms counts has a key for
CountedNorms(page_lines_list) ==
    UNION {{NormalizeHeader(page_lines_list[p][i]) : i \in DOMAIN page_lines_list[p]} :
              p \in DOMAIN page_lines_list} \ {<<>>}

\* twice max(3, len(page_lines_list) * HEADER_MIN_OCCURRENCE), to stay in the integers
HeaderThresholdHalfOnlyTimes2(n) == n
HeaderThresholdTimes2(n) == IF 2 * MIN_HEADER_PAGES > n THEN 2 * MIN_HEADER_PAGES ELSE n

DetectRecurringHeaders(page_lines_list) ==
    {norm \in CountedNorms(page_lines_list) :
        2 * CountHeaderPages(page_lines_list, norm, 1)
            >= HeaderThresholdTimes2(Len(page_lines_list))}

IsFragment(line) == Len(line) = 1 /\ LineLen(line) < MAX_FRAGMENT_LEN

\* " ".join(run)
RECURSIVE JoinRun(_)
JoinRun(run) == IF run = <<>> THEN <<>> ELSE Head(run) \o JoinRun(Tail(run))

\* the flush of an accumulated run
Flush(run) == IF Len(run) >= MIN_FRAGMENT_RUN THEN <<JoinRun(run)>> ELSE run

\* the loop of _rejoin_fragments from line i, with its result and run lists
RECURSIVE RejoinLoop(_, _, _, _, _)
RejoinLoop(lines, i, result, run, flushTrailing) ==
    IF i > Len(lines) THEN result \o (IF flushTrailing THEN Flush(run) ELSE run)
    ELSE IF IsFragment(lines[i]) THEN RejoinLoop(lines, i + 1, result, Append(run, lines[i]), flushTrailing)
    ELSE RejoinLoop(lines, i + 1, (result \o Flush(run)) \o <<lines[i]>>, <<>>, flushTrailing)

RejoinFragmentsNoTrailingFlush(lines) == RejoinLoop(lines, 1, <<>>, <<>>, FALSE)
RejoinFragments(lines) == RejoinLoop(lines, 1, <<>>, <<>>, TRUE)

\* step 1 of the page loop of _clean_text
DropHeaders(lines, hdrs) == SelectSeq(lines, LAMBDA l : NormalizeHeader(l) \notin hdrs)

\* step 2: of consecutive blank lines only the first is kept
RECURSIVE CollapseBlank(_, _, _)
CollapseBlank(lines, i, prev_blank) ==
    IF i > Len(lines) THEN <<>>
    ELSE IF lines[i] = <<>> /\ prev_blank THEN CollapseBlank(lines, i + 1, prev_blank)
    ELSE <<lines[i]>> \o CollapseBlank(lines, i + 1, lines[i] = <<>>)

\* the two while loops that pop blank lines off both ends
RECURSIVE TrimBlank(_)
TrimBlank(lines) ==
    IF lines = <<>> THEN lines
    ELSE IF Head(lines) = <<>> THEN TrimBlank(Tail(lines))
    ELSE IF lines[Len(lines)] = <<>> THEN TrimBlank(SubSeq(lines, 1, Len(lines) - 1))
    ELSE lines

CleanSection(lines, hdrs) ==
    TrimBlank(RejoinFragments(CollapseBlank(DropHeaders(lines, hdrs), 1, FALSE)))

\* ---- documents with a footer and a page-number line ----
FooterLine(p) == IF p % 2 = 1 THEN <<"ACME", "Manual">> ELSE <<"acme", "manual">>
PageNoLine(p) == <<"Page:", IF p % 2 = 1 THEN "1/3" ELSE "2/3">>
BodyLine(p) == IF p % 2 = 1 THEN <<"alpha", "beta">> ELSE <<"gamma">>

\* the section of page p as _clean_text splits it: the rest of the marker
\* line, the content, the two line ends text.txt has after every page
SectionLines(p, footer, twice, pageno) ==
    <<<<>>>> \o (IF footer /\ twice THEN <<FooterLine(p)>> ELSE <<>>)
           \o <<BodyLine(p)>>
           \o (IF footer THEN <<FooterLine(p)>> ELSE <<>>)
           \o (IF pageno THEN <<PageNoLine(p)>> ELSE <<>>)
           \o <<<<>>, <<>>>>

\* n pages; the footer on the first k pages (the last k when fromEnd), twice
\* on a page when twice; the page-number line on the first j pages
FooterDoc(n, k, fromEnd, twice, j) ==
    [p \in 1..n |-> SectionLines(p, IF fromEnd THEN p > n - k ELSE p <= k, twice, p <= j)]

FooterDocs ==
    {FooterDoc(n, k, fromEnd, twice, j) :
        n \in 1..NHdrPages, k \in 0..NHdrPages, fromEnd \in BOOLEAN, twice \in BOOLEAN,
        j \in 0..NHdrPages}

\* ---- documents with a title line, which a page can have one word per line ----
TitleLine == <<"alpha", "beta", "gamma", "a">>
TitleFragments == <<<<"alpha">>, <<"beta">>, <<"gamma">>, <<"a">>>>

\* the section of page p: the title as one line, or as fragments when vertical
TitleSection(p, title, vertical) ==
    <<<<>>>> \o (IF vertical THEN TitleFragments ELSE IF title THEN <<TitleLine>> ELSE <<>>)
           \o <<<<>>, BodyLine(p)>>
           \o <<<<>>, <<>>>>

\* n pages; the title on the first k pages; when vertical, the last page has
\* it one word per line
TitleDoc(n, k, vertical) ==
    [p \in 1..n |-> TitleSection(p, p <= k, vertical /\ p = n)]

TitleDocs ==
    {TitleDoc(n, k, vertical) : n \in 1..NHdrPages, k \in 0..NHdrPages, vertical \in BOOLEAN}

InitHeaderVars ==
    /\ c_pc = "split"
    /\ rawPages \in FooterDocs \cup TitleDocs
    /\ headers = {}
    /\ cleanedPages = <<>>
    /\ c_pn = 1
    /\ fragLines = <<>>
    /\ fragResult = <<>>

\* headers = _detect_recurring_headers([lines for _, lines in pages])
DetectHeaders ==
    /\ c_pc = "split"
    /\ rawPages # <<>>
    /\ headers' = DetectRecurringHeaders(rawPages)
    /\ c_pc' = "pages"
    /\ UNCHANGED <<rawPages, cleanedPages, c_pn, fragLines, fragResult>>

\* one turn of the page loop of _clean_text
CleanPage ==
    /\ c_pc = "pages"
    /\ c_pn <= Len(rawPages)
    /\ cleanedPages' = Append(cleanedPages, CleanSection(rawPages[c_pn], headers))
    /\ c_pn' = c_pn + 1
    /\ UNCHANGED <<c_pc, rawPages, headers, fragLines, fragResult>>

\* the cleaned file is written
WriteCleaned ==
    /\ c_pc = "pages"
    /\ c_pn > Len(rawPages)
    /\ c_pc' = "end"
    /\ UNCHANGED <<rawPages, headers, cleanedPages, c_pn, fragLines, fragResult>>

NextHeaders ==
    /\ UNCHANGED <<ledgerVars, strategyVars, diagVars, pageVars, logoVars, markerVars, fnameVars, imgVars, ocrVars, batchVars, precheckVars, orderVars, rotVars, langVars, dpiVars, sseVars>>
    /\ \/ DetectHeaders
       \/ CleanPage
       \/ WriteCleaned

InitHeaders == IdleLedger /\ IdleStrategy /\ IdleDiagram /\ IdlePage /\ IdleLogo /\ InitHeaderVars /\ IdleMarker /\ IdleFname /\ IdleImages /\ IdleOcr /\ IdleBatch /\ IdlePrecheck /\ IdleOrder /\ IdleRotation /\ IdleLang /\ IdleDpi /\ IdleSse
SpecHeaders == InitHeaders /\ [][NextHeaders]_vars

\* ---- _rejoin_fragments on its own ----
FragmentLines == {<<>>, <<"a">>, <<"b">>, <<LongWord>>, <<"a", "b">>}
LineLists == UNION {[1..n -> FragmentLines] : n \in 0..MaxLines}

InitRejoinVars ==
    /\ c_pc = "split"
    /\ rawPages = <<>>
    /\ headers = {}
    /\ cleanedPages = <<>>
    /\ c_pn = 1
    /\ fragLines \in LineLists
    /\ fragResult = <<>>

Rejoin ==
    /\ c_pc = "split"
    /\ rawPages = <<>>
    /\ fragResult' = RejoinFragments(fragLines)
    /\ c_pc' = "end"
    /\ UNCHANGED <<rawPages, headers, cleanedPages, c_pn, fragLines>>

NextRejoin ==
    /\ UNCHANGED <<ledgerVars, strategyVars, diagVars, pageVars, logoVars, markerVars, fnameVars, imgVars, ocrVars, batchVars, precheckVars, orderVars, rotVars, langVars, dpiVars, sseVars>>
    /\ Rejoin

InitRejoin == IdleLedger /\ IdleStrategy /\ IdleDiagram /\ IdlePage /\ IdleLogo /\ InitRejoinVars /\ IdleMarker /\ IdleFname /\ IdleImages /\ IdleOcr /\ IdleBatch /\ IdlePrecheck /\ IdleOrder /\ IdleRotation /\ IdleLang /\ IdleDpi /\ IdleSse
SpecRejoin == InitRejoin /\ [][NextRejoin]_vars

\* ------------------------------------------------------------------------
\* Page markers: the text write of _extract_pdf and the split of _clean_text
\* ------------------------------------------------------------------------
PageNumbers == 0..9

\* f"===== Page {page_num} =====": the words of the marker
MarkerLine(page_num) == <<"=====", "Page", ToString(page_num), "=====">>

\* the regular expression ===== Page \d+ ===== on a line of the model
IsMarkerLine(line) ==
    /\ Len(line) = 4
    /\ line[1] = "=====" /\ line[2] = "Page" /\ line[4] = "====="
    /\ \E n \in PageNumbers : line[3] = ToString(n)

\* int() of the digits of a marker
MarkerNumber(line) == CHOOSE n \in PageNumbers : line[3] = ToString(n)

\* the contents a page can have: none, text, text with a blank line inside,
\* text that has the shape of a marker
PageContents ==
    { <<>>,
      <<<<"alpha", "beta">>>>,
      <<<<"gamma">>, <<>>, <<"alpha", "beta">>>>,
      <<<<"=====", "Page", "7", "=====">>>>,
      <<<<"gamma">>, <<"=====", "Page", "1", "=====">>>> }

\* pages_content of a document of n pages: page_num counts up from 1
PagesContents ==
    UNION {[1..n -> {[page_num |-> p, content |-> c] : p \in 1..n, c \in PageContents}] :
              n \in 0..MaxMarkPages}

\* the write loop of text.txt: marker line, content.strip(), "\n\n"
RECURSIVE WriteMarkedText(_, _)
WriteMarkedText(pc_list, i) ==
    IF i > Len(pc_list) THEN <<>>
    ELSE LET stripped == TrimBlank(pc_list[i].content)
         IN (<<MarkerLine(pc_list[i].page_num)>>
                \o (IF stripped = <<>> THEN <<<<>>>> ELSE stripped)
                \o <<<<>>>>)
               \o WriteMarkedText(pc_list, i + 1)

\* re.split(r"(===== Page \d+ =====)", raw): the sections from line i on,
\* each with its marker and its lines; sections is what was found so far
RECURSIVE SplitPages(_, _, _)
SplitPages(file, i, sections) ==
    IF i > Len(file) THEN sections
    ELSE IF IsMarkerLine(file[i])
         THEN SplitPages(file, i + 1, Append(sections, [marker |-> file[i], lines |-> <<>>]))
    ELSE IF sections = <<>> THEN SplitPages(file, i + 1, sections)
    ELSE SplitPages(file, i + 1,
             [sections EXCEPT ![Len(sections)].lines = Append(@, file[i])])

\* the page numbers of the markers of the sections
MarkerNumbers(sections) == [i \in DOMAIN sections |-> MarkerNumber(sections[i].marker)]

\* "\n\n".join(cleaned) + "\n": marker and cleaned lines of every section
RECURSIVE WriteCleanedText(_, _, _)
WriteCleanedText(sections, hdrs, i) ==
    IF i > Len(sections) THEN <<>>
    ELSE (<<sections[i].marker>> \o CleanSection(sections[i].lines, hdrs))
            \o (IF i < Len(sections) THEN <<<<>>>> ELSE <<>>)
            \o WriteCleanedText(sections, hdrs, i + 1)

InitMarkerVars ==
    /\ m_pc = "extracted"
    /\ pages_content \in {pcl \in PagesContents : \A i \in DOMAIN pcl : pcl[i].page_num = i}
    /\ textFile = <<>>
    /\ recovered = <<>>
    /\ cleanedFile = <<>>

\* _extract_pdf writes text.txt
WriteMarkers ==
    /\ m_pc = "extracted"
    /\ textFile' = WriteMarkedText(pages_content, 1)
    /\ m_pc' = "written"
    /\ UNCHANGED <<pages_content, recovered, cleanedFile>>

\* _clean_text on that file
CleanMarked ==
    /\ m_pc = "written"
    /\ LET sections == SplitPages(textFile, 1, <<>>)
           hdrs == DetectRecurringHeaders([i \in DOMAIN sections |-> sections[i].lines])
       IN /\ recovered' = MarkerNumbers(sections)
          /\ cleanedFile' = WriteCleanedText(sections, hdrs, 1)
    /\ m_pc' = "cleaned"
    /\ UNCHANGED <<pages_content, textFile>>

NextMarker ==
    /\ UNCHANGED <<ledgerVars, strategyVars, diagVars, pageVars, logoVars, cleanVars, fnameVars, imgVars, ocrVars, batchVars, precheckVars, orderVars, rotVars, langVars, dpiVars, sseVars>>
    /\ \/ WriteMarkers
       \/ CleanMarked

InitMarker == IdleLedger /\ IdleStrategy /\ IdleDiagram /\ IdlePage /\ IdleLogo /\ IdleClean /\ InitMarkerVars /\ IdleFname /\ IdleImages /\ IdleOcr /\ IdleBatch /\ IdlePrecheck /\ IdleOrder /\ IdleRotation /\ IdleLang /\ IdleDpi /\ IdleSse
SpecMarker == InitMarker /\ [][NextMarker]_vars

\* ------------------------------------------------------------------------
\* Image file names: _sanitize_label, the three name formats of
\* _extract_pdf, _parse_image_filename.  A name is the sequence of its
\* pieces: a prefix, a number, or one character.
\* ------------------------------------------------------------------------
CaptionChars == {"F", ".", " ", "/"}
Captions == UNION {[1..n -> CaptionChars] : n \in 0..MaxCaptionLen}
UnsafeChars == {"/", "\\", ":", "*", "?", "\"", "<", ">", "|"}
EdgeChars == {"_", ".", "-"}
Origins == {"embedded", "vector_render", "figure_page"}
ImagePages == {1, 11}
ImageCounts == {0, 2}
ImageExts == {"png", "jpeg"}
NameNumbers == 0..11

\* str.strip(chars)
RECURSIVE StripEdges(_, _)
StripEdges(s, chars) ==
    IF s = <<>> THEN s
    ELSE IF Head(s) \in chars THEN StripEdges(Tail(s), chars)
    ELSE IF s[Len(s)] \in chars THEN StripEdges(SubSeq(s, 1, Len(s) - 1), chars)
    ELSE s

\* str.rstrip(chars)
RECURSIVE StripRight(_, _)
StripRight(s, chars) ==
    IF s # <<>> /\ s[Len(s)] \in chars THEN StripRight(SubSeq(s, 1, Len(s) - 1), chars) ELSE s

\* re.sub(r'[\s]+', '_', label)
RECURSIVE WhitespaceToUnderscore(_, _)
WhitespaceToUnderscore(s, i) ==
    IF i > Len(s) THEN <<>>
    ELSE IF s[i] # " " THEN <<s[i]>> \o WhitespaceToUnderscore(s, i + 1)
    ELSE IF i > 1 /\ s[i - 1] = " " THEN WhitespaceToUnderscore(s, i + 1)
    ELSE <<"_">> \o WhitespaceToUnderscore(s, i + 1)

SanitizeLabel(lbl) ==
    LET stripped == StripEdges(lbl, {" "})
        safe == SelectSeq(stripped, LAMBDA c : c \notin UnsafeChars)
        joined == WhitespaceToUnderscore(safe, 1)
        trimmed == StripEdges(joined, EdgeChars)
        cut == SubSeq(trimmed, 1, IF Len(trimmed) < MAX_LABEL_LEN THEN Len(trimmed) ELSE MAX_LABEL_LEN)
    IN StripRight(cut, EdgeChars)

\* the three f-strings of the image loop
EmbeddedNameNoCounter(page_num, counter, lbl, ext) ==
    <<"diagram_p", ToString(page_num)>>
        \o (IF lbl # <<>> THEN <<"_">> \o lbl ELSE <<>>) \o <<".", ext>>
EmbeddedName(page_num, counter, lbl, ext) ==
    <<"diagram_p", ToString(page_num), "_", ToString(counter)>>
        \o (IF lbl # <<>> THEN <<"_">> \o lbl ELSE <<>>) \o <<".", ext>>
VectorName(page_num, lbl) ==
    <<"page_", ToString(page_num)>>
        \o (IF lbl # <<>> THEN <<"_">> \o lbl ELSE <<>>) \o <<"_highres", ".", "png">>
FigureName(page_num, lbl) ==
    <<"figure_p", ToString(page_num)>>
        \o (IF lbl # <<>> THEN <<"_">> \o lbl ELSE <<>>) \o <<".", "png">>

ImageName(org, page_num, counter, lbl, ext) ==
    CASE org = "embedded" -> EmbeddedName(page_num, counter, lbl, ext)
      [] org = "vector_render" -> VectorName(page_num, lbl)
      [] OTHER -> FigureName(page_num, lbl)

\* \d+ on a number piece, and int() of it
IsDigits(piece) == \E n \in NameNumbers : piece = ToString(n)
DigitsValue(piece) == CHOOSE n \in NameNumbers : piece = ToString(n)

NoMatch == [ok |-> FALSE, label |-> <<>>]

\* (?:_([^.]+))?\. from piece i on: the group takes the pieces up to the
\* first dot, and needs one at least
FirstDot(name, i) == CHOOSE j \in i..Len(name) : name[j] = "." /\ \A k \in i..(j - 1) : name[k] # "."
LabelThenDot(name, i) ==
    IF i > Len(name) THEN NoMatch
    ELSE IF name[i] = "_" /\ i < Len(name) /\ name[i + 1] # "."
              /\ \E j \in (i + 1)..Len(name) : name[j] = "."
         THEN [ok |-> TRUE, label |-> SubSeq(name, i + 1, FirstDot(name, i + 1) - 1)]
    ELSE IF name[i] = "." THEN [ok |-> TRUE, label |-> <<>>]
    ELSE NoMatch

\* (?:_(.+))?_highres\. from piece i on: the group is greedy, so it ends at
\* the last _highres that a dot follows
HighresEnds(name, i) == {k \in i..(Len(name) - 1) : name[k] = "_highres" /\ name[k + 1] = "."}
LastHighres(name, i) == CHOOSE k \in HighresEnds(name, i) : \A m \in HighresEnds(name, i) : m <= k
LabelThenHighres(name, i) ==
    IF i <= Len(name) /\ name[i] = "_" /\ HighresEnds(name, i + 2) # {}
    THEN [ok |-> TRUE, label |-> SubSeq(name, i + 1, LastHighres(name, i + 2) - 1)]
    ELSE IF i < Len(name) /\ name[i] = "_highres" /\ name[i + 1] = "." THEN [ok |-> TRUE, label |-> <<>>]
    ELSE NoMatch

NoneParsed == [page_number |-> 0, image_type |-> "none", label |-> <<>>]

ParseImageFilename(name) ==
    LET emb == IF Len(name) >= 4 /\ name[1] = "diagram_p" /\ IsDigits(name[2])
                     /\ name[3] = "_" /\ IsDigits(name[4])
               THEN LabelThenDot(name, 5) ELSE NoMatch
        ren == IF Len(name) >= 2 /\ name[1] = "page_" /\ IsDigits(name[2])
               THEN LabelThenHighres(name, 3) ELSE NoMatch
        fig == IF Len(name) >= 2 /\ name[1] = "figure_p" /\ IsDigits(name[2])
               THEN LabelThenDot(name, 3) ELSE NoMatch
    IN IF emb.ok THEN [page_number |-> DigitsValue(name[2]), image_type |-> "embedded", label |-> emb.label]
       ELSE IF ren.ok THEN [page_number |-> DigitsValue(name[2]), image_type |-> "vector_render", label |-> ren.label]
       ELSE IF fig.ok THEN [page_number |-> DigitsValue(name[2]), image_type |-> "figure_page", label |-> fig.label]
       ELSE NoneParsed

InitFnameVars ==
    /\ f_pc = "caption"
    /\ caption \in Captions
    /\ origin \in Origins
    /\ f_page \in ImagePages
    /\ f_count \in (IF origin = "embedded" THEN ImageCounts ELSE {0})
    /\ f_ext \in (IF origin = "embedded" THEN ImageExts ELSE {"png"})
    /\ f_label = <<>>
    /\ fname = <<>>
    /\ parsed = NoneParsed

\* the label is found and the name is built
BuildName ==
    /\ f_pc = "caption"
    /\ f_label' = SanitizeLabel(caption)
    /\ fname' = ImageName(origin, f_page, f_count, SanitizeLabel(caption), f_ext)
    /\ f_pc' = "named"
    /\ UNCHANGED <<caption, origin, f_page, f_count, f_ext, parsed>>

\* ingestion parses the name
ParseName ==
    /\ f_pc = "named"
    /\ parsed' = ParseImageFilename(fname)
    /\ f_pc' = "parsed"
    /\ UNCHANGED <<caption, origin, f_page, f_count, f_ext, f_label, fname>>

NextFname ==
    /\ UNCHANGED <<ledgerVars, strategyVars, diagVars, pageVars, logoVars, cleanVars, markerVars, imgVars, ocrVars, batchVars, precheckVars, orderVars, rotVars, langVars, dpiVars, sseVars>>
    /\ \/ BuildName
       \/ ParseName

InitFname == IdleLedger /\ IdleStrategy /\ IdleDiagram /\ IdlePage /\ IdleLogo /\ IdleClean /\ IdleMarker /\ InitFnameVars /\ IdleImages /\ IdleOcr /\ IdleBatch /\ IdlePrecheck /\ IdleOrder /\ IdleRotation /\ IdleLang /\ IdleDpi /\ IdleSse
SpecFname == InitFname /\ [][NextFname]_vars

\* ------------------------------------------------------------------------
\* The image loop of _extract_pdf and the files it writes
\* ------------------------------------------------------------------------
ImageLabels == {<<>>, <<"2">>}

\* the file name as one string
RECURSIVE NameString(_)
NameString(name) == IF name = <<>> THEN "" ELSE Head(name) \o NameString(Tail(name))

\* where the image loop is after Phase 3 of a page
AfterPage(page_num) == IF page_num < NPages THEN "phase1" ELSE "end"

\* Phase 1 writes one embedded image of the page
WriteEmbedded(lbl, ext) ==
    /\ i_pc = "phase1"
    /\ n_embedded < MaxEmbedded
    /\ imageFiles' = imageFiles \cup {NameString(EmbeddedName(i_pn, n_embedded, lbl, ext))}
    /\ n_written' = n_written + 1
    /\ n_embedded' = n_embedded + 1
    /\ page_had_image' = TRUE
    /\ UNCHANGED <<i_pc, i_pn, figure_pages, page_label, page_rendered, page_is_diagram, vector_tried>>

\* the images of the page are done; the caption of the page is lbl
EndPhase1(lbl) ==
    /\ i_pc = "phase1"
    /\ page_label' = lbl
    /\ i_pc' = "phase2"
    /\ UNCHANGED <<i_pn, figure_pages, n_embedded, page_had_image, page_rendered, page_is_diagram,
                   vector_tried, imageFiles, n_written>>

\* the condition of Phase 2
ShouldRenderVectorWithImage(had_image, diagram) == diagram
ShouldRenderVector(had_image, diagram) == ~had_image /\ diagram

\* Phase 2 does not apply
NoVectorRender ==
    /\ i_pc = "phase2"
    /\ ~ShouldRenderVector(page_had_image, page_is_diagram)
    /\ i_pc' = "phase3"
    /\ UNCHANGED <<i_pn, figure_pages, n_embedded, page_had_image, page_label, page_rendered,
                   page_is_diagram, vector_tried, imageFiles, n_written>>

\* Phase 2: the page is rendered; the pixmap is saved when the render succeeded
VectorRender(success) ==
    /\ i_pc = "phase2"
    /\ ShouldRenderVector(page_had_image, page_is_diagram)
    /\ vector_tried' = TRUE
    /\ imageFiles' = IF success THEN imageFiles \cup {NameString(VectorName(i_pn, page_label))}
                     ELSE imageFiles
    /\ n_written' = IF success THEN n_written + 1 ELSE n_written
    /\ page_rendered' = success
    /\ i_pc' = "phase3"
    /\ UNCHANGED <<i_pn, figure_pages, n_embedded, page_had_image, page_label, page_is_diagram>>

\* the condition of Phase 3
ShouldRenderFigureUnrendered(page_num, figs, rendered) == page_num \in figs
ShouldRenderFigure(page_num, figs, rendered) == page_num \in figs /\ ~rendered

\* Phase 3 does not apply
NoFigureRender ==
    /\ i_pc = "phase3"
    /\ ~ShouldRenderFigure(i_pn, figure_pages, page_rendered)
    /\ i_pc' = AfterPage(i_pn)
    /\ i_pn' = i_pn + 1
    /\ page_had_image' = FALSE
    /\ page_rendered' = FALSE
    /\ page_is_diagram' \in BOOLEAN
    /\ vector_tried' = FALSE
    /\ page_label' = <<>>
    /\ UNCHANGED <<figure_pages, n_embedded, imageFiles, n_written>>

\* Phase 3: the page is rendered as a figure page
FigureRender(success) ==
    /\ i_pc = "phase3"
    /\ ShouldRenderFigure(i_pn, figure_pages, page_rendered)
    /\ imageFiles' = IF success THEN imageFiles \cup {NameString(FigureName(i_pn, page_label))}
                     ELSE imageFiles
    /\ n_written' = IF success THEN n_written + 1 ELSE n_written
    /\ i_pc' = AfterPage(i_pn)
    /\ i_pn' = i_pn + 1
    /\ page_had_image' = FALSE
    /\ page_rendered' = FALSE
    /\ page_is_diagram' \in BOOLEAN
    /\ vector_tried' = FALSE
    /\ page_label' = <<>>
    /\ UNCHANGED <<figure_pages, n_embedded>>

NextImages ==
    /\ UNCHANGED <<ledgerVars, strategyVars, diagVars, pageVars, logoVars, cleanVars, markerVars, fnameVars, ocrVars, batchVars, precheckVars, orderVars, rotVars, langVars, dpiVars, sseVars>>
    /\ \/ \E lbl \in ImageLabels, ext \in ImageExts : WriteEmbedded(lbl, ext)
       \/ \E lbl \in ImageLabels : EndPhase1(lbl)
       \/ NoVectorRender
       \/ \E success \in BOOLEAN : VectorRender(success)
       \/ NoFigureRender
       \/ \E success \in BOOLEAN : FigureRender(success)

InitImageVars ==
    /\ i_pc = "phase1"
    /\ i_pn = 1
    /\ figure_pages \in SUBSET Pages
    /\ n_embedded = 0
    /\ page_had_image = FALSE
    /\ page_label = <<>>
    /\ page_rendered = FALSE
    /\ page_is_diagram \in BOOLEAN
    /\ vector_tried = FALSE
    /\ imageFiles = {}
    /\ n_written = 0

InitImages == IdleLedger /\ IdleStrategy /\ IdleDiagram /\ IdlePage /\ IdleLogo /\ IdleClean /\ IdleMarker /\ IdleFname /\ InitImageVars /\ IdleOcr /\ IdleBatch /\ IdlePrecheck /\ IdleOrder /\ IdleRotation /\ IdleLang /\ IdleDpi /\ IdleSse
SpecImages == InitImages /\ [][NextImages]_vars

\* ------------------------------------------------------------------------
\* OCR: the page loops of _extract_text_with_ocr and of the mixed strategy
\* ------------------------------------------------------------------------
OcrPages == 1..NOcrPages
NoPagesText == [p \in OcrPages |-> "none"]

InitOcrVars ==
    /\ o_pc = "page"
    /\ o_mode \in {"full", "mixed"}
    /\ o_list \in (IF o_mode = "mixed" THEN SUBSET OcrPages \ {{}} ELSE {{}})
    /\ lang_missing \in BOOLEAN
    /\ fault \in [OcrPages -> {"ok", "error"}]
    /\ o_pn = 1
    /\ pages_text = NoPagesText
    /\ calls = [p \in OcrPages |-> 0]
    /\ textFile_pages = "none"

\* an exception leaves the page loop: _extract_text_with_ocr catches it
\* around the whole loop and returns [], _extract_single_page_with_ocr
\* catches it for its page and returns ""
OcrRaises(mode, texts, page) ==
    IF mode = "full" THEN NoPagesText ELSE [texts EXCEPT ![page] = "empty"]

\* the page is one OCR is used for
IsOcrPage == o_mode = "full" \/ o_pn \in o_list

\* pytesseract.image_to_string(image, lang=lang)
OcrCall ==
    /\ o_pc = "page"
    /\ o_pn <= NOcrPages
    /\ IsOcrPage
    /\ calls' = [calls EXCEPT ![o_pn] = @ + 1]
    /\ IF lang_missing
       THEN /\ o_pc' = "retry"
            /\ UNCHANGED <<o_pn, pages_text>>
       ELSE IF fault[o_pn] = "ok"
       THEN /\ pages_text' = [pages_text EXCEPT ![o_pn] = "text"]
            /\ o_pn' = o_pn + 1
            /\ UNCHANGED o_pc
       ELSE /\ pages_text' = OcrRaises(o_mode, pages_text, o_pn)
            /\ o_pn' = IF o_mode = "full" THEN NOcrPages + 1 ELSE o_pn + 1
            /\ o_pc' = IF o_mode = "full" THEN "write" ELSE "page"
    /\ UNCHANGED <<o_mode, o_list, lang_missing, fault, textFile_pages>>

\* "Failed loading language": pytesseract.image_to_string(image, lang="eng")
OcrRetryEng ==
    /\ o_pc = "retry"
    /\ calls' = [calls EXCEPT ![o_pn] = @ + 1]
    /\ IF fault[o_pn] = "ok"
       THEN /\ pages_text' = [pages_text EXCEPT ![o_pn] = "text"]
            /\ o_pn' = o_pn + 1
            /\ o_pc' = "page"
       ELSE /\ pages_text' = OcrRaises(o_mode, pages_text, o_pn)
            /\ o_pn' = IF o_mode = "full" THEN NOcrPages + 1 ELSE o_pn + 1
            /\ o_pc' = IF o_mode = "full" THEN "write" ELSE "page"
    /\ UNCHANGED <<o_mode, o_list, lang_missing, fault, textFile_pages>>

\* mixed strategy: a page that is not in ocr_pages_only is extracted the standard way
StandardPage ==
    /\ o_pc = "page"
    /\ o_pn <= NOcrPages
    /\ ~IsOcrPage
    /\ pages_text' = [pages_text EXCEPT ![o_pn] = "text"]
    /\ o_pn' = o_pn + 1
    /\ UNCHANGED <<o_pc, o_mode, o_list, lang_missing, fault, calls, textFile_pages>>

\* the page loop is over
EndOcrPages ==
    /\ o_pc = "page"
    /\ o_pn > NOcrPages
    /\ o_pc' = "write"
    /\ UNCHANGED <<o_mode, o_list, lang_missing, fault, o_pn, pages_text, calls, textFile_pages>>

\* text.txt is written, unless full OCR gave no page (skip_text_file)
WriteOcrText ==
    /\ o_pc = "write"
    /\ textFile_pages' = IF o_mode = "full" /\ pages_text = NoPagesText THEN "none" ELSE pages_text
    /\ o_pc' = "end"
    /\ UNCHANGED <<o_mode, o_list, lang_missing, fault, o_pn, pages_text, calls>>

NextOcr ==
    /\ UNCHANGED <<ledgerVars, strategyVars, diagVars, pageVars, logoVars, cleanVars, markerVars, fnameVars, imgVars, batchVars, precheckVars, orderVars, rotVars, langVars, dpiVars, sseVars>>
    /\ \/ OcrCall
       \/ OcrRetryEng
       \/ StandardPage
       \/ EndOcrPages
       \/ WriteOcrText

InitOcr == IdleLedger /\ IdleStrategy /\ IdleDiagram /\ IdlePage /\ IdleLogo /\ IdleClean /\ IdleMarker /\ IdleFname /\ IdleImages /\ InitOcrVars /\ IdleBatch /\ IdlePrecheck /\ IdleOrder /\ IdleRotation /\ IdleLang /\ IdleDpi /\ IdleSse
SpecOcr == InitOcr /\ [][NextOcr]_vars

\* ------------------------------------------------------------------------
\* Batches of full-document OCR: the loops of _extract_text_with_ocr
\* ------------------------------------------------------------------------
Min(a, b) == IF a <= b THEN a ELSE b

\* batch_end = min(batch_start + OCR_BATCH_SIZE, total_pages)
BatchEnd(start, total) == Min(start + OCR_BATCH_SIZE, total)

InitBatchVars ==
    /\ b_pc = "convert"
    /\ total_pages \in 0..MaxOcrDocPages
    /\ batch_start = 0
    /\ images = {}
    /\ image = 0
    /\ b_i = 0
    /\ batch_pages_text = <<>>
    /\ requests = <<>>

\* images = convert_from_path(first_page=batch_start + 1, last_page=batch_end);
\* the loop variable image keeps the object it was last bound to
ConvertBatch ==
    /\ b_pc = "convert"
    /\ batch_start < total_pages
    /\ images' = (batch_start + 1)..BatchEnd(batch_start, total_pages)
    /\ requests' = Append(requests, <<batch_start + 1, BatchEnd(batch_start, total_pages)>>)
    /\ b_i' = 0
    /\ b_pc' = "ocr"
    /\ UNCHANGED <<total_pages, batch_start, image, batch_pages_text>>

\* for i, image in enumerate(images): page_num = batch_start + i + 1;
\* pages_text.append((page_num, text))
OcrBatchPage ==
    /\ b_pc = "ocr"
    /\ b_i < Cardinality(images)
    /\ image' = batch_start + b_i + 1
    /\ batch_pages_text' = Append(batch_pages_text, batch_start + b_i + 1)
    /\ b_i' = b_i + 1
    /\ UNCHANGED <<b_pc, total_pages, batch_start, images, requests>>

\* del images, and the batch loop takes its next batch_start
DelImages ==
    /\ b_pc = "ocr"
    /\ b_i = Cardinality(images)
    /\ images' = {}
    /\ batch_start' = batch_start + OCR_BATCH_SIZE
    /\ b_pc' = "convert"
    /\ UNCHANGED <<total_pages, image, b_i, batch_pages_text, requests>>

\* range(0, total_pages, OCR_BATCH_SIZE) is exhausted: return pages_text
EndBatches ==
    /\ b_pc = "convert"
    /\ batch_start >= total_pages
    /\ b_pc' = "done"
    /\ UNCHANGED <<total_pages, batch_start, images, image, b_i, batch_pages_text, requests>>

NextBatch ==
    /\ UNCHANGED <<ledgerVars, strategyVars, diagVars, pageVars, logoVars, cleanVars, markerVars, fnameVars, imgVars, ocrVars, precheckVars, orderVars, rotVars, langVars, dpiVars, sseVars>>
    /\ \/ ConvertBatch
       \/ OcrBatchPage
       \/ DelImages
       \/ EndBatches

InitBatch == IdleLedger /\ IdleStrategy /\ IdleDiagram /\ IdlePage /\ IdleLogo /\ IdleClean /\ IdleMarker /\ IdleFname /\ IdleImages /\ IdleOcr /\ InitBatchVars /\ IdlePrecheck /\ IdleOrder /\ IdleRotation /\ IdleLang /\ IdleDpi /\ IdleSse
SpecBatch == InitBatch /\ [][NextBatch]_vars

\* ------------------------------------------------------------------------
\* Precheck of _extract_pdf with the garbled-text detector
\* ------------------------------------------------------------------------
\* what the precheck finds on a page: fewer than 50 characters (empty), or
\* text for which _is_garbled_text returns True (garbled) or False (clean)
PrecheckKinds == {"empty", "garbled", "clean"}
PrecheckDocs == UNION {[1..n -> PrecheckKinds] : n \in 0..MaxPrecheckPages}

\* empty_count and garbled_count over the first pages_to_check pages
EmptyPages(pages) == {i \in 1..PagesToCheck(Len(pages)) : pages[i] = "empty"}
GarbledPages(pages) == {i \in 1..PagesToCheck(Len(pages)) : pages[i] = "garbled"}

\* the branch the code has commented out: elif garbled_count > 0: use_ocr = True
PrecheckDecisionGarbledTriggersOcr(pages) ==
    IF Cardinality(EmptyPages(pages)) = PagesToCheck(Len(pages)) THEN TRUE
    ELSE IF Cardinality(GarbledPages(pages)) > 0 THEN TRUE
    ELSE FALSE

\* if empty_count == pages_to_check: use_ocr = True; garbled_count is only logged
PrecheckDecision(pages) ==
    IF Cardinality(EmptyPages(pages)) = PagesToCheck(Len(pages)) THEN TRUE
    ELSE FALSE

InitPrecheckVars ==
    /\ k_pc = "first"
    /\ docA \in PrecheckDocs
    /\ docB \in PrecheckDocs
    /\ use_ocrA = FALSE
    /\ use_ocrB = FALSE

PrecheckFirst ==
    /\ k_pc = "first"
    /\ use_ocrA' = PrecheckDecision(docA)
    /\ k_pc' = "second"
    /\ UNCHANGED <<docA, docB, use_ocrB>>

PrecheckSecond ==
    /\ k_pc = "second"
    /\ use_ocrB' = PrecheckDecision(docB)
    /\ k_pc' = "done"
    /\ UNCHANGED <<docA, docB, use_ocrA>>

NextPrecheck ==
    /\ UNCHANGED <<ledgerVars, strategyVars, diagVars, pageVars, logoVars, cleanVars, markerVars, fnameVars, imgVars, ocrVars, batchVars, orderVars, rotVars, langVars, dpiVars, sseVars>>
    /\ \/ PrecheckFirst
       \/ PrecheckSecond

InitPrecheck == IdleLedger /\ IdleStrategy /\ IdleDiagram /\ IdlePage /\ IdleLogo /\ IdleClean /\ IdleMarker /\ IdleFname /\ IdleImages /\ IdleOcr /\ IdleBatch /\ InitPrecheckVars /\ IdleOrder /\ IdleRotation /\ IdleLang /\ IdleDpi /\ IdleSse
SpecPrecheck == InitPrecheck /\ [][NextPrecheck]_vars

\* ------------------------------------------------------------------------
\* Order of documents and pages: PDF_SOURCES, run_extraction, run_cleanup
\* ------------------------------------------------------------------------
\* source folder i has the i-th label in alphabetical order, file j of a
\* folder the j-th name of its sorted listing
SourceLabels == 1..NSources
SourceFiles == 1..NSourceFiles

\* os.listdir returns the entries in arbitrary order
ListDir(S) == {f \in [1..Cardinality(S) -> S] : \A i, j \in DOMAIN f : i # j => f[i] # f[j]}

\* sorted(os.listdir(...))
SortedListDir(S) == {f \in ListDir(S) : \A i, j \in DOMAIN f : i < j => f[i] < f[j]}

\* PDF_SOURCES is built from os.listdir(_PDFS_ROOT); run_cleanup walks
\* sorted(os.listdir(EXTRACTED_DIR))
SourceListings(stg) ==
    IF stg = "extract" THEN ListDir(SourceLabels) ELSE SortedListDir(SourceLabels)

InitOrderVars ==
    /\ r_pc = "source"
    /\ r_stage \in Stages
    /\ listing \in SourceListings(r_stage)
    /\ r_src = 1
    /\ r_file = 1
    /\ r_pages = 0
    /\ r_pn = 0
    /\ docsVisited = <<>>
    /\ pagesVisited = <<>>

\* for source_dir in PDF_SOURCES / for source_label in sorted(...)
EnterSource ==
    /\ r_pc = "source"
    /\ r_src <= Len(listing)
    /\ r_file' = 1
    /\ r_pc' = "files"
    /\ UNCHANGED <<r_stage, listing, r_src, r_pages, r_pn, docsVisited, pagesVisited>>

\* the file loop enters the processing of its next file
BeginDocument(n) ==
    /\ r_pc = "files"
    /\ r_file <= NSourceFiles
    /\ docsVisited' = Append(docsVisited, <<listing[r_src], r_file>>)
    /\ r_pages' = n
    /\ r_pn' = 1
    /\ pagesVisited' = <<>>
    /\ r_pc' = "pages"
    /\ UNCHANGED <<r_stage, listing, r_src, r_file>>

\* for pn, page in enumerate(pdf.pages): page_num = pn + 1
ExtractNextPage ==
    /\ r_pc = "pages"
    /\ r_pn <= r_pages
    /\ pagesVisited' = Append(pagesVisited, r_pn)
    /\ r_pn' = r_pn + 1
    /\ UNCHANGED <<r_pc, r_stage, listing, r_src, r_file, r_pages, docsVisited>>

\* the document is done, its ledger entry saved: next file
EndDocument ==
    /\ r_pc = "pages"
    /\ r_pn > r_pages
    /\ r_pages' = 0
    /\ r_pn' = 0
    /\ r_file' = r_file + 1
    /\ r_pc' = "files"
    /\ UNCHANGED <<r_stage, listing, r_src, docsVisited, pagesVisited>>

\* the file loop of the folder is exhausted
LeaveSource ==
    /\ r_pc = "files"
    /\ r_file > NSourceFiles
    /\ r_src' = r_src + 1
    /\ r_pc' = "source"
    /\ UNCHANGED <<r_stage, listing, r_file, r_pages, r_pn, docsVisited, pagesVisited>>

\* the source folder loop is exhausted
EndStage ==
    /\ r_pc = "source"
    /\ r_src > Len(listing)
    /\ r_pc' = "end"
    /\ UNCHANGED <<r_stage, listing, r_src, r_file, r_pages, r_pn, docsVisited, pagesVisited>>

NextOrder ==
    /\ UNCHANGED <<ledgerVars, strategyVars, diagVars, pageVars, logoVars, cleanVars, markerVars, fnameVars, imgVars, ocrVars, batchVars, precheckVars, rotVars, langVars, dpiVars, sseVars>>
    /\ \/ EnterSource
       \/ \E n \in 1..NOrderPages : BeginDocument(n)
       \/ ExtractNextPage
       \/ EndDocument
       \/ LeaveSource
       \/ EndStage

InitOrder == IdleLedger /\ IdleStrategy /\ IdleDiagram /\ IdlePage /\ IdleLogo /\ IdleClean /\ IdleMarker /\ IdleFname /\ IdleImages /\ IdleOcr /\ IdleBatch /\ IdlePrecheck /\ InitOrderVars /\ IdleRotation /\ IdleLang /\ IdleDpi /\ IdleSse
SpecOrder == InitOrder /\ [][NextOrder]_vars

\* ------------------------------------------------------------------------
\* Rotation fallback of the page loop of _extract_pdf
\* ------------------------------------------------------------------------
Rotations == {0, 90, 180, 270}
PlumberLens == {0, 10, 49, 50, 60, 200}
FitzLens == {0, 5, 30, 49, 50, 55, 300}

\* a mistake the code could make: the rotation-aware text is taken for every rotated page
UseFitzTextOnEveryRotatedPage(rot, plen, flen) ==
    rot # 0 /\ flen >= MIN_TEXT_LENGTH_FOR_VALID_PAGE

\* if pn in page_rotations: if len(plumber_out) < 50: if len(fitz_text) >= 50
UseFitzText(rot, plen, flen) ==
    /\ rot # 0
    /\ plen < MIN_TEXT_LENGTH_FOR_VALID_PAGE
    /\ flen >= MIN_TEXT_LENGTH_FOR_VALID_PAGE

InitRotationVars ==
    /\ t_pc = "page"
    /\ rotation \in Rotations
    /\ plumber_out \in PlumberLens
    /\ fitz_text \in FitzLens
    /\ kept = "none"

\* the page keeps the standard result
KeepStandard ==
    /\ t_pc = "page"
    /\ ~UseFitzText(rotation, plumber_out, fitz_text)
    /\ kept' = "plumber"
    /\ t_pc' = "done"
    /\ UNCHANGED <<rotation, plumber_out, fitz_text>>

\* page_content = [fitz_text]
SwitchToFitz ==
    /\ t_pc = "page"
    /\ UseFitzText(rotation, plumber_out, fitz_text)
    /\ kept' = "fitz"
    /\ t_pc' = "done"
    /\ UNCHANGED <<rotation, plumber_out, fitz_text>>

NextRotation ==
    /\ UNCHANGED <<ledgerVars, strategyVars, diagVars, pageVars, logoVars, cleanVars, markerVars, fnameVars, imgVars, ocrVars, batchVars, precheckVars, orderVars, langVars, dpiVars, sseVars>>
    /\ \/ KeepStandard
       \/ SwitchToFitz

InitRotation == IdleLedger /\ IdleStrategy /\ IdleDiagram /\ IdlePage /\ IdleLogo /\ IdleClean /\ IdleMarker /\ IdleFname /\ IdleImages /\ IdleOcr /\ IdleBatch /\ IdlePrecheck /\ IdleOrder /\ InitRotationVars /\ IdleLang /\ IdleDpi /\ IdleSse
SpecRotation == InitRotation /\ [][NextRotation]_vars

\* ------------------------------------------------------------------------
\* _detect_ocr_language
\* ------------------------------------------------------------------------
MetaLangs == {"none", "zh", "en"}
CjkCounts == {0, 5, 20, 21}
LatinCounts == {0, 20, 21, 99, 100}
SampleCounts == {-1, 0, 1, 11}

\* "zh" in meta_lang or "chi" in meta_lang or "中文" in meta_lang
MetaNamesChinese(meta) == meta = "zh"

\* a mistake the code could make: the Latin count is not looked at
CountsLanguageWithoutLatin(cjk, latin) ==
    IF cjk > MIN_CJK THEN "chi_sim+eng" ELSE "none"

\* step 2: the language the character counts give, none when they give none
CountsLanguage(cjk, latin) ==
    IF cjk > MIN_CJK /\ latin > MIN_LATIN THEN "chi_sim+eng"
    ELSE IF cjk > MIN_CJK THEN "chi_sim"
    ELSE "none"

\* step 3 is entered: OCR_AVAILABLE and pdf_path and (cjk_count == 0 and latin_count < 100)
SampleCondition(able, cjk, latin) == able /\ cjk = 0 /\ latin < MAX_LATIN_FOR_SAMPLE

\* the language the sample gives: sample_cjk > 10 and sample_cjk > 0 both return chi_sim+eng
SampleLanguage(count) == IF count > 0 THEN "chi_sim+eng" ELSE "none"

InitLangVars ==
    /\ g_pc = "detect"
    /\ meta_lang \in MetaLangs
    /\ cjk_count \in CjkCounts
    /\ latin_count \in LatinCounts
    /\ can_sample \in BOOLEAN
    /\ sample_cjk \in SampleCounts
    /\ ocr_lang = "none"
    /\ sample_taken = FALSE

\* step 1 returns
ReturnMetadataHint ==
    /\ g_pc = "detect"
    /\ MetaNamesChinese(meta_lang)
    /\ ocr_lang' = "chi_sim+eng"
    /\ g_pc' = "done"
    /\ UNCHANGED <<meta_lang, cjk_count, latin_count, can_sample, sample_cjk, sample_taken>>

\* step 2 returns
ReturnCountsLanguage ==
    /\ g_pc = "detect"
    /\ ~MetaNamesChinese(meta_lang)
    /\ CountsLanguage(cjk_count, latin_count) # "none"
    /\ ocr_lang' = CountsLanguage(cjk_count, latin_count)
    /\ g_pc' = "done"
    /\ UNCHANGED <<meta_lang, cjk_count, latin_count, can_sample, sample_cjk, sample_taken>>

\* step 3 is made; it returns, or falls through to the default
SampleFirstPage ==
    /\ g_pc = "detect"
    /\ ~MetaNamesChinese(meta_lang)
    /\ CountsLanguage(cjk_count, latin_count) = "none"
    /\ SampleCondition(can_sample, cjk_count, latin_count)
    /\ sample_taken' = TRUE
    /\ ocr_lang' = IF SampleLanguage(sample_cjk) # "none" THEN SampleLanguage(sample_cjk) ELSE "eng"
    /\ g_pc' = "done"
    /\ UNCHANGED <<meta_lang, cjk_count, latin_count, can_sample, sample_cjk>>

\* step 4 without a sample
ReturnDefault ==
    /\ g_pc = "detect"
    /\ ~MetaNamesChinese(meta_lang)
    /\ CountsLanguage(cjk_count, latin_count) = "none"
    /\ ~SampleCondition(can_sample, cjk_count, latin_count)
    /\ ocr_lang' = "eng"
    /\ g_pc' = "done"
    /\ UNCHANGED <<meta_lang, cjk_count, latin_count, can_sample, sample_cjk, sample_taken>>

NextLang ==
    /\ UNCHANGED <<ledgerVars, strategyVars, diagVars, pageVars, logoVars, cleanVars, markerVars, fnameVars, imgVars, ocrVars, batchVars, precheckVars, orderVars, rotVars, dpiVars, sseVars>>
    /\ \/ ReturnMetadataHint
       \/ ReturnCountsLanguage
       \/ SampleFirstPage
       \/ ReturnDefault

InitLang == IdleLedger /\ IdleStrategy /\ IdleDiagram /\ IdlePage /\ IdleLogo /\ IdleClean /\ IdleMarker /\ IdleFname /\ IdleImages /\ IdleOcr /\ IdleBatch /\ IdlePrecheck /\ IdleOrder /\ IdleRotation /\ InitLangVars /\ IdleDpi /\ IdleSse
SpecLang == InitLang /\ [][NextLang]_vars

\* ------------------------------------------------------------------------
\* Adaptive resolution of _safe_render_page in Phase 2 and Phase 3
\* ------------------------------------------------------------------------
RenderPages ==
    [drawings : {0, 40, 41, 99, 100, 150}, rects : {0, 1}, bbox : {29, 30}, area : {100},
     text : {300, 301}]

\* a mistake the code could make: the complexity of the page is not looked at
AdaptiveDpiAlwaysHigh(drawings) == HIGH_RES_DPI

\* dpi is None: LOW_RES_DPI for more than COMPLEX_DIAGRAM_THRESHOLD drawings
AdaptiveDpi(drawings) ==
    IF drawings > COMPLEX_DIAGRAM_THRESHOLD THEN LOW_RES_DPI ELSE HIGH_RES_DPI

\* _is_vector_diagram(page)
PageIsVectorDiagram(page) ==
    IsVectorDiagram(page.drawings, page.rects, page.bbox, page.area, page.text)

InitDpiVars ==
    /\ v_pc = "phase2"
    /\ v_page \in RenderPages
    /\ v_had_image \in BOOLEAN
    /\ v_figure \in BOOLEAN
    /\ v_rendered = FALSE
    /\ dpi_vector = 0
    /\ dpi_figure = 0

\* Phase 2 does not apply to the page
SkipVector ==
    /\ v_pc = "phase2"
    /\ ~ShouldRenderVector(v_had_image, PageIsVectorDiagram(v_page))
    /\ v_pc' = "phase3"
    /\ UNCHANGED <<v_page, v_had_image, v_figure, v_rendered, dpi_vector, dpi_figure>>

\* Phase 2: _safe_render_page(page, page_num, log), the pixmap saved on success
RenderVector(success) ==
    /\ v_pc = "phase2"
    /\ ShouldRenderVector(v_had_image, PageIsVectorDiagram(v_page))
    /\ dpi_vector' = IF success THEN AdaptiveDpi(v_page.drawings) ELSE 0
    /\ v_rendered' = success
    /\ v_pc' = "phase3"
    /\ UNCHANGED <<v_page, v_had_image, v_figure, dpi_figure>>

\* Phase 3 does not apply to the page
SkipFigure ==
    /\ v_pc = "phase3"
    /\ ~ShouldRenderFigure(1, IF v_figure THEN {1} ELSE {}, v_rendered)
    /\ v_pc' = "end"
    /\ UNCHANGED <<v_page, v_had_image, v_figure, v_rendered, dpi_vector, dpi_figure>>

\* Phase 3: _safe_render_page(page, page_num, log), the pixmap saved on success
RenderFigure(success) ==
    /\ v_pc = "phase3"
    /\ ShouldRenderFigure(1, IF v_figure THEN {1} ELSE {}, v_rendered)
    /\ dpi_figure' = IF success THEN AdaptiveDpi(v_page.drawings) ELSE 0
    /\ v_rendered' = (v_rendered \/ success)
    /\ v_pc' = "end"
    /\ UNCHANGED <<v_page, v_had_image, v_figure, dpi_vector>>

NextDpi ==
    /\ UNCHANGED <<ledgerVars, strategyVars, diagVars, pageVars, logoVars, cleanVars, markerVars, fnameVars, imgVars, ocrVars, batchVars, precheckVars, orderVars, rotVars, langVars, sseVars>>
    /\ \/ SkipVector
       \/ \E success \in BOOLEAN : RenderVector(success)
       \/ SkipFigure
       \/ \E success \in BOOLEAN : RenderFigure(success)

InitDpi == IdleLedger /\ IdleStrategy /\ IdleDiagram /\ IdlePage /\ IdleLogo /\ IdleClean /\ IdleMarker /\ IdleFname /\ IdleImages /\ IdleOcr /\ IdleBatch /\ IdlePrecheck /\ IdleOrder /\ IdleRotation /\ IdleLang /\ InitDpiVars /\ IdleSse
SpecDpi == InitDpi /\ [][NextDpi]_vars

\* ------------------------------------------------------------------------
\* SSE streaming: analyze_stream, analyze_integrated_stream, IntegratedRCATool
\* ------------------------------------------------------------------------
DomainAgents == 1..NAgents
Endpoints == {"5_whys", "integrated_rca"}

\* await status_queue.put(item): the queue is unbounded, the item is appended
Put(queue, kind, count) == Append(queue, [kind |-> kind, id |-> count + 1])

\* asyncio.gather(*tasks, return_exceptions=True) returns when every task has ended
GatherReturnsOnFirst(agents) == \E a \in DOMAIN agents : agents[a] \in {"done", "failed"}
GatherReturns(agents) == \A a \in DOMAIN agents : agents[a] \in {"unselected", "done", "failed"}

\* the SSE event type the generator yields for a queue item
EventKind(ep, kind) ==
    CASE kind = "result_success" -> "result"
      [] kind = "result_failure" -> "error"
      [] kind = "__ERROR__" -> "error"
      [] kind = "__DOMAIN_INSIGHTS__" /\ ep = "integrated_rca" -> "domain_insights"
      [] OTHER -> "status"

\* the generator leaves its loop after this item
IsTerminalItem(kind) == kind \in {"result_success", "result_failure", "__ERROR__"}

InitSseVars ==
    /\ e_pc = "start"
    /\ endpoint \in Endpoints
    /\ agent_pc \in [DomainAgents -> {"unselected", "selected"}]
    /\ IF endpoint = "integrated_rca"
       THEN \E a \in DomainAgents : agent_pc[a] = "selected"
       ELSE \A a \in DomainAgents : agent_pc[a] = "unselected"
    /\ status_queue = <<>>
    /\ n_put = 0
    /\ stream = <<>>
    /\ gen_pc = "open"

\* the tool starts: the 5 Whys tool puts its first status; the integrated tool
\* puts its routing status and starts a task for every selected domain agent
StartAnalysis ==
    /\ e_pc = "start"
    /\ status_queue' = Put(status_queue, "status", n_put)
    /\ n_put' = n_put + 1
    /\ e_pc' = IF endpoint = "integrated_rca" THEN "agents" ELSE "whys"
    /\ agent_pc' = [a \in DomainAgents |-> IF agent_pc[a] = "selected" THEN "pending" ELSE agent_pc[a]]
    /\ UNCHANGED <<endpoint, stream, gen_pc>>

\* a domain agent puts a status message
AgentStatus(a) ==
    /\ agent_pc[a] = "pending"
    /\ status_queue' = Put(status_queue, "status", n_put)
    /\ n_put' = n_put + 1
    /\ agent_pc' = [agent_pc EXCEPT ![a] = "started"]
    /\ UNCHANGED <<e_pc, endpoint, stream, gen_pc>>

\* a domain agent returns its result or raises
AgentEnds(a, ok) ==
    /\ agent_pc[a] = "started"
    /\ agent_pc' = [agent_pc EXCEPT ![a] = IF ok THEN "done" ELSE "failed"]
    /\ UNCHANGED <<e_pc, endpoint, status_queue, n_put, stream, gen_pc>>

\* gather has returned: the insights are aggregated and put as a special item
PutDomainInsights ==
    /\ e_pc = "agents"
    /\ GatherReturns(agent_pc)
    /\ status_queue' = Put(Put(status_queue, "status", n_put), "__DOMAIN_INSIGHTS__", n_put + 1)
    /\ n_put' = n_put + 2
    /\ e_pc' = "whys"
    /\ UNCHANGED <<endpoint, agent_pc, stream, gen_pc>>

\* the 5 Whys (and Fishbone) steps put their status messages
WhysStatus ==
    /\ e_pc = "whys"
    /\ status_queue' = Put(status_queue, "status", n_put)
    /\ n_put' = n_put + 1
    /\ e_pc' = "finish"
    /\ UNCHANGED <<endpoint, agent_pc, stream, gen_pc>>

\* execute_tool returns a ToolResult (success or not): put(("__RESULT__", result))
PutResult(success) ==
    /\ e_pc = "finish"
    /\ status_queue' = Put(status_queue, IF success THEN "result_success" ELSE "result_failure", n_put)
    /\ n_put' = n_put + 1
    /\ e_pc' = "done"
    /\ UNCHANGED <<endpoint, agent_pc, stream, gen_pc>>

\* execute_tool raises: put(("__ERROR__", str(e)))
PutError ==
    /\ e_pc \in {"start", "whys", "finish"}
    /\ status_queue' = Put(status_queue, "__ERROR__", n_put)
    /\ n_put' = n_put + 1
    /\ e_pc' = "done"
    /\ UNCHANGED <<endpoint, agent_pc, stream, gen_pc>>

\* one turn of the generator loop: get an item, yield its event, break after
\* a result or error item
YieldEvent ==
    /\ gen_pc = "open"
    /\ status_queue # <<>>
    /\ stream' = Append(stream, [kind |-> EventKind(endpoint, Head(status_queue).kind),
                                 id |-> Head(status_queue).id])
    /\ status_queue' = Tail(status_queue)
    /\ gen_pc' = IF IsTerminalItem(Head(status_queue).kind) THEN "closed" ELSE "open"
    /\ UNCHANGED <<e_pc, endpoint, agent_pc, n_put>>

NextSse ==
    /\ UNCHANGED <<ledgerVars, strategyVars, diagVars, pageVars, logoVars, cleanVars, markerVars, fnameVars, imgVars, ocrVars, batchVars, precheckVars, orderVars, rotVars, langVars, dpiVars>>
    /\ \/ StartAnalysis
       \/ \E a \in DomainAgents : AgentStatus(a)
       \/ \E a \in DomainAgents, ok \in BOOLEAN : AgentEnds(a, ok)
       \/ PutDomainInsights
       \/ WhysStatus
       \/ \E success \in BOOLEAN : PutResult(success)
       \/ PutError
       \/ YieldEvent

InitSse == IdleLedger /\ IdleStrategy /\ IdleDiagram /\ IdlePage /\ IdleLogo /\ IdleClean /\ IdleMarker /\ IdleFname /\ IdleImages /\ IdleOcr /\ IdleBatch /\ IdlePrecheck /\ IdleOrder /\ IdleRotation /\ IdleLang /\ IdleDpi /\ InitSseVars
SpecSse == InitSse /\ [][NextSse]_vars

Init == InitLedger /\ IdleStrategy /\ IdleDiagram /\ IdlePage /\ IdleLogo /\ IdleClean /\ IdleMarker /\ IdleFname /\ IdleImages /\ IdleOcr /\ IdleBatch /\ IdlePrecheck /\ IdleOrder /\ IdleRotation /\ IdleLang /\ IdleDpi /\ IdleSse
Next == NextLedger
Spec == Init /\ [][Next]_vars

\* ------------------------------------------------------------------------
\* Properties of the ledger and the file loops
\* ------------------------------------------------------------------------
Running == lastEnd = "running"
\* the file loop has visited every file and the stage is about to return
RunEnd == pc = "loop" /\ idx > NFiles
Candidates == {f \in Files : Candidate(stage, f)}

\* C1: a candidate file is processed in a run if and only if force is set or
\* its ledger entry is not done: a file entering processing is a candidate
\* that is forced or whose entry is absent or error, a file skipped as done
\* is a candidate whose entry is done in a run without force, and every
\* candidate the loop has passed was either processed or skipped as done.
C1_ProcessedIffForcedOrNotDone ==
    /\ pc \in DocPcs =>
          /\ cur \in processed /\ cur \in Candidates
          /\ force \/ status[cur].status # "done"
    /\ \A f \in skipped :
          /\ f \in Candidates /\ f \notin processed
          /\ ~force /\ status[f].status = "done"
    /\ processed \subseteq Candidates
    /\ pc = "loop" => \A f \in Candidates : f < idx => f \in processed \cup skipped

\* a done file was skipped and, in the same run, an error file is reprocessed
C1_Witness ==
    /\ skipped # {}
    /\ pc \in DocPcs
    /\ status[cur].status = "error"

\* C2: in a run without force, a file whose entry is done when the ledger is
\* loaded gets no write: no step enters processing for it or writes an
\* artifact for it, its in-memory entry stays as it is, the step that skips
\* it leaves the ledger file alone, and every complete rewrite of the ledger
\* file made for other files carries its entry unchanged.
C2_RerunIdempotent ==
    [][\A f \in Files :
          (Running /\ pc' # "idle" /\ ~force /\ status[f].status = "done" /\ f \notin processed)
          => /\ status'[f] = status[f]
             /\ f \notin processed'
             /\ f \notin wrote'
             /\ (f \in skipped' /\ f \notin skipped) => disk' = disk
             /\ disk'.state = "ok" => disk'.entries[f] = status[f]]_vars

\* a rerun without force has skipped a done file, processed another file and
\* rewritten the ledger file
C2_Witness ==
    /\ RunEnd
    /\ ~force
    /\ skipped # {}
    /\ processed # {}
    /\ disk.state = "ok"

\* C3: an exception raised while a file is processed is recorded, and the run
\* goes on: once the loop has passed a file, a file that raised has the entry
\* error with the exception text, in memory and in the flushed ledger file,
\* every other processed file has the entry done of this run, whatever the
\* files before or after it did, and at the end of the run every candidate
\* has been visited.
C3_ErrorIsRecordedAndRunGoesOn ==
    /\ pc = "loop" =>
          \A f \in processed :
             /\ status[f] = IF raised[f] # "" THEN ErrorEntry(raised[f], runNo)
                            ELSE DoneEntry(runNo)
             /\ disk.state = "ok"
             /\ disk.entries[f] = status[f]
    /\ RunEnd => Candidates \subseteq processed \cup skipped

\* the first file raised and the second was processed to done afterwards
C3_Witness ==
    /\ RunEnd
    /\ raised[1] # ""
    /\ 2 \in processed
    /\ status[2].status = "done"
    /\ disk.entries[1].status = "error"

\* C4 as stated: in the run that repeats the command of a run that crashed
\* mid-document, no file whose done entry was flushed before the crash is
\* processed.
C4_Original_FlushedDoneIsSkipped ==
    (resume /\ pc \in DocPcs) => flushed[cur].status # "done"

\* C4 amended: in the run that repeats, without force, the command of a run
\* that crashed mid-document, every file whose done entry was flushed before
\* the crash is skipped; with or without force the document that was in
\* progress is processed again, and the run ends with an entry, in memory and
\* in the ledger file, for every candidate.
C4_CrashResume ==
    /\ (resume /\ ~force /\ pc \in DocPcs) => flushed[cur].status # "done"
    /\ (resume /\ RunEnd) =>
          /\ crashFile \in processed
          /\ disk.state = "ok"
          /\ \A f \in Candidates :
                /\ status[f].status # "absent"
                /\ disk.entries[f] = status[f]

\* the rerun skipped a file that was done before the crash and processed the
\* document that was in progress
C4_Witness ==
    /\ resume
    /\ ~force
    /\ RunEnd
    /\ skipped # {}
    /\ crashFile \in processed

\* C5 as stated: after a crash at any point of a run, every entry that a
\* completed _save_status had flushed is still in the ledger file and
\* _load_status can read it.
C5_CrashKeepsFlushedEntries ==
    lastEnd = "crashed" =>
       \A f \in Files :
          flushed[f].status # "absent" =>
             /\ ~LoadRaises(disk)
             /\ LoadStatus(disk)[f] = flushed[f]

\* C6 as stated: whenever a stage records done for a file, the text artifact
\* of that file was written during this processing of it.
C6_Original_DoneImpliesTextWritten ==
    (pc = "save" /\ status[cur].status = "done") => doc.wroteText

\* C6 amended: whenever a stage records done for a file, the text artifact of
\* that file was written during this processing of it, unless the stage is
\* extraction, full-document OCR was chosen and OCR gave no page (OCR is
\* unavailable or failed): then done is recorded without a text file.
C6_DoneImpliesTextWrittenUnlessOcrGaveNothing ==
    (pc = "save" /\ status[cur].status = "done") =>
       \/ doc.wroteText /\ cur \in wrote
       \/ stage = "extract" /\ doc.use_ocr /\ ~doc.ocr_pages

\* extraction recorded done for a document read by full-document OCR whose
\* text file was written
C6_Witness ==
    /\ pc = "save"
    /\ stage = "extract"
    /\ status[cur].status = "done"
    /\ doc.use_ocr
    /\ doc.wroteText

C10_DiagramIffBelowCutoff ==
    LET covers == /\ num_rects > 0
                  /\ page_area > 0
                  /\ bbox_area * 100 >= 30 * page_area
    IN d_pc = "classified" =>
          (is_diagram <=> (num_drawings >= 100 /\ covers /\ text_len < 300))

\* ------------------------------------------------------------------------
\* Properties of the timeout workers
\* ------------------------------------------------------------------------
Degraded == tableTimeout # {} \/ renderFailed # {}

\* C7: after a table-extraction or render timeout the call returns to the
\* pipeline without waiting for the worker: the pipeline thread is never
\* held in a call while the worker of that call is still running after its
\* timeout.
C7_TimeoutNeverWaitsForWorker ==
    ~(p_pc \in {"tables_join", "render_join"} /\ worker = "running")

\* C8: once a page of a document is degraded (its table extraction timed
\* out, or its render timed out or failed), the remaining pages are still
\* processed and the document ends with ledger status done, unless a later
\* exception that is no degradation ends it with error.
C8_DegradedDocumentStillEnds ==
    Degraded ~> (outcome \in {"done", "error"})

\* ------------------------------------------------------------------------
\* Properties of the logo filter
\* ------------------------------------------------------------------------
PagesShowing(x) == {p \in DOMAIN imgDoc : \E i \in DOMAIN imgDoc[p] : imgDoc[p][i] = x}

\* C11: an xref shown on at least 3 distinct pages of the document is never
\* written from any page; an xref shown on at most 2 pages is not in
\* logo_xrefs, and when the image loop is over it has been written if it is
\* shown on some page and meets the size minimums.
C11_LogoIffOnThreePages ==
    \A x \in Xrefs :
        /\ Cardinality(PagesShowing(x)) >= 3 => \A p \in DOMAIN imgDoc : <<p, x>> \notin written
        /\ Cardinality(PagesShowing(x)) <= 2 =>
              /\ x \notin logo_xrefs
              /\ (l_pc = "end" /\ PagesShowing(x) # {} /\ x \in bigXrefs) =>
                    \E p \in PagesShowing(x) : <<p, x>> \in written

\* one image is shown on three pages and never written, the other is shown
\* twice on one page and once on another and is written
C11_Witness ==
    /\ l_pc = "end"
    /\ \E x, y \in Xrefs :
          /\ Cardinality(PagesShowing(x)) = 3
          /\ x \in bigXrefs
          /\ \A p \in DOMAIN imgDoc : <<p, x>> \notin written
          /\ Cardinality(PagesShowing(y)) = 2
          /\ \E p \in PagesShowing(y) : Cardinality({i \in DOMAIN imgDoc[p] : imgDoc[p][i] = y}) = 2
          /\ \E p \in PagesShowing(y) : <<p, y>> \in written

\* ------------------------------------------------------------------------
\* Properties of the cleanup
\* ------------------------------------------------------------------------
\* the pages of the raw file with a line of the given normal form
PagesWithNorm(norm) ==
    {p \in DOMAIN rawPages :
        \E i \in DOMAIN rawPages[p] : NormalizeHeader(rawPages[p][i]) = norm}

\* C12: once the headers of a document are detected, a non-blank normal form
\* is a header pattern if and only if it occurs on at least
\* max(3, 0.5 * page_count) distinct pages; and no cleaned page section of
\* a document with footer lines has a line whose normal form is a header
\* pattern.
C12_HeaderIffOnEnoughPages ==
    c_pc # "split" =>
        /\ \A p \in DOMAIN rawPages : \A i \in DOMAIN rawPages[p] :
              LET norm == NormalizeHeader(rawPages[p][i])
                  cnt == Cardinality(PagesWithNorm(norm))
              IN norm # <<>> =>
                    (norm \in headers <=> (cnt >= 3 /\ 2 * cnt >= Len(rawPages)))
        /\ \A h \in headers : h # <<>>
        /\ rawPages \in FooterDocs =>
              \A p \in DOMAIN cleanedPages : \A i \in DOMAIN cleanedPages[p] :
                  NormalizeHeader(cleanedPages[p][i]) \notin headers

\* a 10-page document was cleaned whose footer is on 5 pages and is a header
\* pattern, and whose page-number line is on 4 pages and is none
C12_Witness ==
    /\ c_pc = "end"
    /\ Len(rawPages) = 10
    /\ Cardinality(PagesWithNorm(<<"acme", "manual">>)) = 5
    /\ <<"acme", "manual">> \in headers
    /\ Cardinality(PagesWithNorm(<<"page:", "#/#">>)) = 4
    /\ <<"page:", "#/#">> \notin headers
    /\ Len(cleanedPages) = 10

\* the last line of the maximal run of fragment lines that has line i
RECURSIVE RunLast(_, _)
RunLast(lines, i) ==
    IF i < Len(lines) /\ IsFragment(lines[i + 1]) THEN RunLast(lines, i + 1) ELSE i

\* the words of lines i..j in their order, as one line
RECURSIVE WordsOf(_, _, _)
WordsOf(lines, i, j) == IF i > j THEN <<>> ELSE lines[i] \o WordsOf(lines, i + 1, j)

\* the list the claim describes, from line i on: a maximal run of four or
\* more single-word lines shorter than 30 characters is one line, any
\* other line is itself
RECURSIVE RunsJoined(_, _)
RunsJoined(lines, i) ==
    IF i > Len(lines) THEN <<>>
    ELSE IF ~(Len(lines[i]) = 1 /\ LineLen(lines[i]) < 30) THEN <<lines[i]>> \o RunsJoined(lines, i + 1)
    ELSE LET j == RunLast(lines, i)
         IN (IF j - i + 1 >= 4 THEN <<WordsOf(lines, i, j)>> ELSE SubSeq(lines, i, j))
               \o RunsJoined(lines, j + 1)

\* C13: _rejoin_fragments returns its argument with every maximal run of at
\* least 4 consecutive single-word lines shorter than 30 characters replaced
\* by the one line of their words in order, and every run of 1 to 3 such
\* lines and every other line unchanged and in place.
C13_RejoinOnlyLongRuns ==
    (c_pc = "end" /\ rawPages = <<>>) => fragResult = RunsJoined(fragLines, 1)

\* a list was rejoined that ends with a run of four fragments after a run of
\* one, the two runs parted by a long single word
C13_Witness ==
    /\ c_pc = "end"
    /\ fragLines = <<<<"a">>, <<LongWord>>, <<"a">>, <<"b">>, <<"a">>, <<"b">>>>
    /\ fragResult = <<<<"a">>, <<LongWord>>, <<"a", "b", "a", "b">>>>

\* ------------------------------------------------------------------------
\* Properties of the page markers
\* ------------------------------------------------------------------------
\* the page numbers extraction wrote, in order
WrittenNumbers == [i \in DOMAIN pages_content |-> pages_content[i].page_num]

\* C14: after the cleanup of a text file that extraction wrote, the page
\* numbers the split recovered, and the page numbers of the markers of the
\* cleaned file, are the page numbers extraction wrote, in the same order.
C14_MarkerRoundTrip ==
    m_pc = "cleaned" =>
        /\ recovered = WrittenNumbers
        /\ MarkerNumbers(SplitPages(cleanedFile, 1, <<>>)) = WrittenNumbers

\* ------------------------------------------------------------------------
\* Properties of the image file names
\* ------------------------------------------------------------------------
\* C15: for every image file name extraction builds, _parse_image_filename
\* returns the origin, the page number and the label that were put into the
\* name.
C15_FilenameRoundTrip ==
    f_pc = "parsed" =>
        parsed = [page_number |-> f_page, image_type |-> origin, label |-> f_label]

\* ------------------------------------------------------------------------
\* Properties of the image files
\* ------------------------------------------------------------------------
\* C16: within one extraction of a document every image is written to a
\* path no other image of the document is written to: there are as many
\* paths as image writes.
C16_ImagePathsDistinct == Cardinality(imageFiles) = n_written

\* two embedded images of page 1 with the same label and extension, a figure
\* render of page 1 and a vector render of page 2 were written
C16_Witness ==
    /\ i_pc = "end"
    /\ n_written = 4
    /\ {"diagram_p1_0_2.png", "diagram_p1_1_2.png", "figure_p1_2.png", "page_2_2_highres.png"}
          = imageFiles

\* a step of Phase 3 that writes a figure-page image
FigureWritten == i_pc = "phase3" /\ n_written' = n_written + 1

\* C17 as stated: Phase 3 renders a page as a figure page only if the page
\* has a caption keyword and yielded no embedded image in Phase 1 and no
\* vector render in Phase 2.
C17_Original_FigureOnlyWithoutAnyImage ==
    [][FigureWritten => (i_pn \in figure_pages /\ ~page_had_image /\ ~page_rendered)]_vars

\* C17: Phase 3 renders a page as a figure page only if the page has a
\* caption keyword and was not rendered as a vector diagram in Phase 2 (a
\* page that yielded an embedded image in Phase 1 can be rendered).
C17_FigureOnlyIfKeywordAndNotRendered ==
    [][FigureWritten => (i_pn \in figure_pages /\ ~page_rendered)]_vars

\* page 1 yielded an embedded image and was rendered as a figure page, and
\* page 2 was rendered as a vector diagram and not as a figure page although
\* it has a caption keyword
C17_Witness ==
    /\ i_pc = "end"
    /\ figure_pages = {1, 2}
    /\ imageFiles = {"diagram_p1_0.png", "figure_p1.png", "page_2_highres.png"}

\* ------------------------------------------------------------------------
\* Properties of retries
\* ------------------------------------------------------------------------
\* C18: a page whose full-page render failed or timed out is not rendered a
\* second time in the same run: no render call is in progress for a page
\* that already has a failed render.
C18_FailedRenderNotRepeated ==
    ~(p_pc = "render_wait" /\ pn \in renderFailed)

\* ------------------------------------------------------------------------
\* Properties of OCR failures
\* ------------------------------------------------------------------------
\* the text text.txt has for a page: none when there is no file or no section
WrittenText(p) == IF textFile_pages = "none" THEN "none" ELSE textFile_pages[p]

\* C19: a page whose OCR call fails for a missing language pack gets one more
\* call, with eng, and no further one; when that call fails too, the page is
\* there with empty text.
C19_LanguageFallbackOnce ==
    \A p \in DOMAIN calls :
        /\ calls[p] <= 2
        /\ (lang_missing /\ calls[p] = 2 /\ fault[p] = "error") => pages_text[p] = "empty"

\* C20: when OCR fails on a page for a reason other than a missing language
\* pack, text.txt still has the text of every page OCR does not fail on, in
\* the full and in the mixed strategy.
C20_OcrFailureLosesOnlyThatPage ==
    (o_pc = "end" /\ ~lang_missing) =>
        \A p \in DOMAIN fault : fault[p] = "ok" => WrittenText(p) = "text"

\* ------------------------------------------------------------------------
\* Properties of the OCR batches
\* ------------------------------------------------------------------------
\* the pages whose images the function holds a reference to
HeldImages == images \cup (IF b_pc # "done" /\ image # 0 THEN {image} ELSE {})

\* the batch a page is converted in
BatchOf(p) == (p - 1) \div OCR_BATCH_SIZE

\* every request is for at most OCR_BATCH_SIZE consecutive pages
C21_BatchesSmall ==
    \A k \in DOMAIN requests : requests[k][2] - requests[k][1] + 1 \in 1..OCR_BATCH_SIZE

\* the pages OCR'd are 1..n, each once, in ascending order, and all of them at the end
C21_BatchesCoverInOrder ==
    /\ \A k \in DOMAIN batch_pages_text : batch_pages_text[k] = k
    /\ b_pc = "done" => Len(batch_pages_text) = total_pages

\* C21: pages are converted in batches of at most 10 consecutive pages, the
\* images held at any time all belong to one batch, and the batches cover
\* pages 1..N once each in ascending order.
C21_OneBatchOfImagesHeld ==
    /\ C21_BatchesSmall
    /\ C21_BatchesCoverInOrder
    /\ \A p, q \in HeldImages : BatchOf(p) = BatchOf(q)

\* ------------------------------------------------------------------------
\* Properties of the ledger flush
\* ------------------------------------------------------------------------
\* the file loop is between two files and has processed a file in this run
AfterProcessedFile == pc = "loop" /\ processed # {}

\* the step passes over a file without processing it
SkipStep == pc = "loop" /\ pc' = "loop" /\ idx' = idx + 1

\* C22: after every file a stage has processed, with success or with an
\* error, the ledger file holds the in-memory ledger; a run reads the ledger
\* file once, at its start; passing over a file neither reads nor writes it.
C22_LedgerFlushedAfterEveryFile ==
    /\ [](AfterProcessedFile => (disk.state = "ok" /\ disk.entries = status))
    /\ [](pc # "idle" => loads = 1)
    /\ [][SkipStep => (disk' = disk /\ loads' = loads)]_vars

C22_Witness ==
    /\ AfterProcessedFile
    /\ skipped # {}
    /\ \E f \in processed : status[f].status = "error"
    /\ disk.entries = status

\* ------------------------------------------------------------------------
\* Properties of the precheck
\* ------------------------------------------------------------------------
\* the sampled pages of the two documents have the same EMPTY/TEXTUAL classification
SameClassification ==
    /\ PagesToCheck(Len(docA)) = PagesToCheck(Len(docB))
    /\ \A i \in 1..PagesToCheck(Len(docA)) : (docA[i] = "empty") <=> (docB[i] = "empty")

KeyBefore(a, b) == a[1] < b[1] \/ (a[1] = b[1] /\ a[2] < b[2])

\* the documents entered so far were entered in alphabetical order of their keys
DocumentsInOrder ==
    \A i, j \in DOMAIN docsVisited : i < j => KeyBefore(docsVisited[i], docsVisited[j])

\* the pages of the current document are extracted in ascending page number
PagesInOrder == \A i \in DOMAIN pagesVisited : pagesVisited[i] = i

\* C24: the documents of a stage run are processed one at a time in
\* alphabetical order, and the pages of a document in ascending page number.
C24_AlphabeticalOrder == DocumentsInOrder /\ PagesInOrder

\* ------------------------------------------------------------------------
\* Properties of the rotation fallback
\* ------------------------------------------------------------------------
\* C25: the rotation-aware text replaces the standard result only on a page
\* with non-zero rotation whose standard result has fewer than 50 characters,
\* and only if it is longer than the standard result; on every other page
\* the standard result is kept.
C25_RotationFallback ==
    t_pc = "done" =>
        /\ kept = "fitz" =>
              /\ rotation # 0
              /\ plumber_out < 50
              /\ fitz_text > plumber_out
        /\ (rotation = 0 \/ plumber_out >= 50) => kept = "plumber"

C25_Witness ==
    /\ t_pc = "done"
    /\ kept = "fitz"
    /\ rotation = 90
    /\ plumber_out = 49

\* ------------------------------------------------------------------------
\* Properties of the OCR language detection
\* ------------------------------------------------------------------------
\* the OCR language a metadata hint names
HintLanguage(meta) == IF meta = "zh" THEN "chi_sim+eng" ELSE "eng"

\* the character counts are conclusive: more than 20 CJK characters
CountsConclusive == cjk_count > 20

\* what the counts say when they are conclusive
CountsSay == IF latin_count > 20 THEN "chi_sim+eng" ELSE "chi_sim"

\* steps 2 to 4, for a document whose hint does not decide
AfterHint ==
    /\ CountsConclusive => (ocr_lang = CountsSay /\ ~sample_taken)
    /\ sample_taken => ~CountsConclusive
    /\ (~CountsConclusive /\ sample_taken) =>
          ocr_lang = (IF sample_cjk > 0 THEN "chi_sim+eng" ELSE "eng")
    /\ (~CountsConclusive /\ ~sample_taken) => ocr_lang = "eng"

HasEmbeddedFile(p) ==
    \E counter \in 0..(MaxEmbedded - 1), lbl \in ImageLabels, ext \in ImageExts :
        NameString(EmbeddedName(p, counter, lbl, ext)) \in imageFiles

\* a vector render of page p is among the files written
HasVectorFile(p) ==
    \E lbl \in ImageLabels : NameString(VectorName(p, lbl)) \in imageFiles

\* C27: Phase 2 renders a page only if Phase 1 extracted no embedded image
\* from it and the page is a vector diagram; a page with an extracted
\* embedded image has no vector render among the files.
C27_VectorOnlyWithoutEmbedded ==
    /\ vector_tried => (~page_had_image /\ page_is_diagram)
    /\ \A p \in Pages : HasEmbeddedFile(p) => ~HasVectorFile(p)

\* page 1 was rendered as a vector diagram; page 2 is a vector diagram too,
\* but Phase 1 extracted an image from it and Phase 2 passed it over
C27_Witness ==
    /\ i_pn = 2
    /\ i_pc = "phase3"
    /\ HasVectorFile(1)
    /\ HasEmbeddedFile(2)
    /\ page_is_diagram
    /\ ~vector_tried

\* ------------------------------------------------------------------------
\* Properties of the cleaned page sections
\* ------------------------------------------------------------------------
\* no line of the section matches a header pattern of the document
NoHeaderLine(lines) == \A i \in DOMAIN lines : NormalizeHeader(lines[i]) \notin headers

\* the section has no two consecutive blank lines
NoBlankRun(lines) == \A i \in DOMAIN lines : i < Len(lines) => ~(lines[i] = <<>> /\ lines[i + 1] = <<>>)

\* the section neither starts nor ends with a blank line
NoBlankEnds(lines) == lines # <<>> => (lines[1] # <<>> /\ lines[Len(lines)] # <<>>)

\* the blank lines of every cleaned section are as claimed
C28_BlankLinesNormalised ==
    \A p \in DOMAIN cleanedPages : NoBlankRun(cleanedPages[p]) /\ NoBlankEnds(cleanedPages[p])

\* C28: in every page section of the cleaned output no line matches a header
\* pattern of the document, there are no two consecutive blank lines, and the
\* section neither starts nor ends with a blank line.
C28_CleanedSections ==
    \A p \in DOMAIN cleanedPages :
        /\ NoHeaderLine(cleanedPages[p])
        /\ NoBlankRun(cleanedPages[p])
        /\ NoBlankEnds(cleanedPages[p])

\* ------------------------------------------------------------------------
\* Properties of the render resolution
\* ------------------------------------------------------------------------
\* C29: every vector_render image of Phase 2 is rendered at 150 DPI; 300 DPI
\* is selected only for a Phase 3 figure page with at most 40 drawing
\* primitives.
C29_VectorRenderLowRes ==
    /\ dpi_vector \in {0, 150}
    /\ dpi_figure \in {0, 150, 300}
    /\ dpi_figure = 300 => (v_figure /\ v_page.drawings <= 40)
    /\ dpi_figure = 150 => v_page.drawings > 40

\* a vector diagram page was rendered in Phase 2
C29_Witness ==
    /\ v_pc = "end"
    /\ dpi_vector = 150
    /\ v_page.drawings = 100

\* ------------------------------------------------------------------------
\* Properties of the SSE stream
\* ------------------------------------------------------------------------
\* the positions of the stream that hold a result or error event
TerminalEvents == {i \in DOMAIN stream : stream[i].kind \in {"result", "error"}}

\* the items whose event is in the stream
Streamed == {stream[i].id : i \in DOMAIN stream}

\* C30: when the analysis task has finished and its items are consumed, the
\* stream has exactly one result or error event; that event comes after the
\* event of every item the analysis put on the queue, those of the parallel
\* domain agents included, and no event follows it.
C30_OneTerminalEventLast ==
    /\ TerminalEvents \subseteq {Len(stream)}
    /\ gen_pc = "closed" <=> TerminalEvents # {}
    /\ gen_pc = "closed" => Streamed = 1..n_put
    /\ (e_pc = "done" /\ status_queue = <<>>) => gen_pc = "closed"

\* an integrated request: both domain agents put their status, one failed, the
\* insights were streamed and the result came last
C30_Witness ==
    /\ gen_pc = "closed"
    /\ endpoint = "integrated_rca"
    /\ agent_pc = <<"done", "failed">>
    /\ Len(stream) = 7
    /\ stream[5].kind = "domain_insights"
    /\ stream[7].kind = "result"

====
